---- MODULE Spec2Model ----
(***************************************************************************)
(* A model of the analysis core of trainingpeaks-mcp: the best-effort      *)
(* power engine (src/mcp/tools/power.ts), the FIT file cache               *)
(* (src/cache.ts), the power-duration curve builder and the interval       *)
(* comparison (src/mcp/tools/workouts.ts).                                 *)
(*                                                                         *)
(* Each subsystem has its own variables and its own specification; a       *)
(* specification holds the variables of the other subsystems at their      *)
(* idle values.                                                            *)
(***************************************************************************)
EXTENDS Integers, Sequences, FiniteSets, TLC

VARIABLES
  \* ---- computeBestPower (power.ts:13-41)
  powerStream,       \* the argument powerStream: number[]
  durationSeconds,   \* the argument durationSeconds
  bpPc,              \* "idle", "call" (not yet called) or "done" (returned)
  bpResult,          \* what computeBestPower returned
  \* ---- FitFileCache (cache.ts)
  disk,              \* the cache directory: workout id -> NoFile or [data, mtime]
  index,             \* this.index, a Map in insertion order: <<[id, size, lastAccess], ...>>
  initialized,       \* this.initialized
  clock,             \* the last value Date.now() returned
  procs,             \* the calls in flight: slot -> the call's position and locals
  ghost,             \* history of the calls, for stating the properties only
  \* ---- buildPowerDurationCurve (power.ts:134-224)
  pdcPc,             \* "idle", "getWorkouts", "fetching", "resolved" or "rejected"
  pdcArgs,           \* the argument args
  allWorkouts,       \* what getWorkouts resolved with
  cyclingWorkouts,   \* the Bike workouts that are not excluded
  batchStart,        \* i of the batch loop
  tasks,             \* per workout of cyclingWorkouts: its download/decode task
  warnings,          \* the array warnings
  workoutPowerStreams, \* the array workoutPowerStreams
  pdcResult,         \* what the call resolved with
  \* ---- compareIntervals (workouts.ts:201-262)
  ciPc,              \* "idle", "fetching", "parsing", "resolved" or "rejected"
  ciArgs,            \* the argument args, after the schema's defaults
  fetches,           \* per requested workout: its two requests
  workoutLaps,       \* per requested workout: its parse callback, detail and laps
  ciWarnings,        \* the array warnings
  ciResult,          \* the object the call prints
  \* ---- computeAerobicDecoupling (power.ts:250-319)
  decPower,          \* the argument powerStream
  decHr,             \* the argument hrStream
  decPc,             \* "idle", "call" (not yet called) or "done"
  decResult,         \* the error thrown or the result returned
  \* ---- filterLaps (workouts.ts:128-147)
  flLaps,            \* the argument laps
  flArgs,            \* the argument args
  flPc,              \* "idle", "call" (not yet called) or "done"
  flResult,          \* the laps returned
  \* ---- getBestPower (power.ts:43-99)
  gbPc,              \* "idle", "getWorkout", "download", "decode", "resolved", "rejected"
  gbArgs,            \* the argument args
  gbWorkout,         \* the local workout, once getWorkout has resolved
  gbResult,          \* the object printed or the error thrown
  gbOutcome,         \* what the environment delivered to the call
  \* ---- FilesApi.downloadActivityFile (api/files.ts:26-53)
  dfHasCache,        \* whether the FilesApi was constructed with a cache
  dfStore,           \* what cache.get would find: workout id -> <<>> or <<bytes>>
  dfPc,              \* where the current call is
  dfId,              \* the argument workoutId
  dfFileInfo,        \* the local fileInfo
  dfBytes,           \* the local result, before it is cached
  dfResult,          \* what the call has returned or thrown
  dfLog,             \* the cache calls and requests the current call has made
  dfPrev,            \* the previous call: its id and what it returned
  dfCalls,           \* the calls made so far
  \* ---- WorkoutsApi.getWorkouts (api/workouts.ts:20-41, 134-163)
  gwPc,              \* "idle", "getAthleteId", "fetching", "resolved" or "rejected"
  gwArgs,            \* startDate, endDate and options of the call
  gwZone,            \* the time zone of the process
  dateRanges,        \* the local dateRanges
  gwRequests,        \* the ranges requested so far, in order
  gwAllWorkouts      \* the local allWorkouts, returned at the end

powerVars == <<powerStream, durationSeconds, bpPc, bpResult>>
cacheVars == <<disk, index, initialized, clock, procs, ghost>>

pdcVars == <<pdcPc, pdcArgs, allWorkouts, cyclingWorkouts, batchStart, tasks,
             warnings, workoutPowerStreams, pdcResult>>
ciVars == <<ciPc, ciArgs, fetches, workoutLaps, ciWarnings, ciResult>>

decVars == <<decPower, decHr, decPc, decResult>>

filterVars == <<flLaps, flArgs, flPc, flResult>>

gbVars == <<gbPc, gbArgs, gbWorkout, gbResult, gbOutcome>>

dfVars == <<dfHasCache, dfStore, dfPc, dfId, dfFileInfo, dfBytes, dfResult, dfLog,
            dfPrev, dfCalls>>

gwVars == <<gwPc, gwArgs, gwZone, dateRanges, gwRequests, gwAllWorkouts>>

vars == <<powerVars, cacheVars, pdcVars, ciVars, decVars, filterVars, gbVars, dfVars,
          gwVars>>

\* What an action of one subsystem leaves unchanged: the other subsystems.
notPower == <<cacheVars, pdcVars, ciVars, decVars, filterVars, gbVars, dfVars, gwVars>>
notCache == <<powerVars, pdcVars, ciVars, decVars, filterVars, gbVars, dfVars, gwVars>>
notPdc == <<powerVars, cacheVars, ciVars, decVars, filterVars, gbVars, dfVars, gwVars>>
notCi == <<powerVars, cacheVars, pdcVars, decVars, filterVars, gbVars, dfVars, gwVars>>
notDec == <<powerVars, cacheVars, pdcVars, ciVars, filterVars, gbVars, dfVars, gwVars>>
notFilter == <<powerVars, cacheVars, pdcVars, ciVars, decVars, gbVars, dfVars, gwVars>>
notGb == <<powerVars, cacheVars, pdcVars, ciVars, decVars, filterVars, dfVars, gwVars>>
notDf == <<powerVars, cacheVars, pdcVars, ciVars, decVars, filterVars, gbVars, gwVars>>
notGw == <<powerVars, cacheVars, pdcVars, ciVars, decVars, filterVars, gbVars, dfVars>>

\* The null that computeBestPower returns (power.ts:18).
NoBestPower == [null |-> TRUE]

(***************************************************************************)
(* Bounds of the model.                                                    *)
(***************************************************************************)
\* largest power sample drawn for a stream
MaxPower == 2
\* longest power stream drawn
MaxSamples == 4

RECURSIVE SeqsUpTo(_, _)
\* All sequences over S of length at most n.
SeqsUpTo(S, n) ==
  IF n = 0 THEN {<<>>}
  ELSE LET shorter == SeqsUpTo(S, n - 1)
       IN  shorter \cup {Append(s, x) : s \in {t \in shorter : Len(t) = n - 1}, x \in S}

(***************************************************************************)
(* computeBestPower, power.ts:13-41.  JavaScript indexes from 0, a TLA+     *)
(* sequence from 1: powerStream[i] of the source is ps[i + 1] here.         *)
(***************************************************************************)

\* Math.round(n / d) for an integer n and d > 0: the nearest integer, a half
\* rounding towards +Infinity.
MathRound(n, d) == (2 * n + d) \div (2 * d)

RECURSIVE FirstWindow(_, _, _)
\* power.ts:21-24: the loop summing powerStream[0 .. durationSeconds-1],
\* entered with i = 0 and windowSum = 0.
FirstWindow(ps, d, i) ==
  IF i < d THEN ps[i + 1] + FirstWindow(ps, d, i + 1) ELSE 0

\* A tie that replaces the best window found so far.
ImprovesOrTies(windowSum, bestSum) == windowSum >= bestSum

\* power.ts:31: the comparison that lets a later window replace the best one.
Improves(windowSum, bestSum) == windowSum > bestSum

RECURSIVE Slide(_, _, _, _, _, _)
\* power.ts:29-35: the sliding loop from index i with the running state
\* (windowSum, bestSum, bestStart); yields the final <<bestSum, bestStart>>.
Slide(ps, d, i, windowSum, bestSum, bestStart) ==
  IF i < Len(ps)
  THEN LET w == windowSum + ps[i + 1] - ps[i - d + 1]
       IN  IF Improves(w, bestSum)
           THEN Slide(ps, d, i + 1, w, w, i - d + 1)
           ELSE Slide(ps, d, i + 1, w, bestSum, bestStart)
  ELSE <<bestSum, bestStart>>

computeBestPower(ps, d) ==
  IF d > Len(ps) THEN NoBestPower
  ELSE LET first == FirstWindow(ps, d, 0)
           best == Slide(ps, d, d, first, first, 0)
       IN  [bestPower |-> MathRound(best[1], d), startIndex |-> best[2]]

\* ---- the specification of computeBestPower on bounded inputs

PowerIdle ==
  /\ powerStream = <<>>
  /\ durationSeconds = 0
  /\ bpPc = "idle"
  /\ bpResult = NoBestPower

PowerInit ==
  /\ powerStream \in SeqsUpTo(0..MaxPower, MaxSamples)
  /\ durationSeconds \in 1..(MaxSamples + 1)
  /\ bpPc = "call"
  /\ bpResult = NoBestPower

CallComputeBestPower ==
  /\ bpPc = "call"
  /\ bpPc' = "done"
  /\ bpResult' = computeBestPower(powerStream, durationSeconds)
  /\ UNCHANGED <<powerStream, durationSeconds>>
  /\ UNCHANGED notPower

\* SpecBestPower is defined after the idle states of the other subsystems.

(***************************************************************************)
(* C1.  computeBestPower agrees with the reference definition: null when    *)
(* the window is longer than the stream; otherwise the rounded average of   *)
(* the largest window sum and the smallest start index reaching that sum.   *)
(***************************************************************************)
RECURSIVE RefWindowSum(_, _, _)
\* Sum of the d samples of ps starting at 0-based index k.
RefWindowSum(ps, k, d) ==
  IF d = 0 THEN 0 ELSE ps[k + 1] + RefWindowSum(ps, k + 1, d - 1)

RefStarts(ps, d) == 0..(Len(ps) - d)

RefMaxSum(ps, d) ==
  CHOOSE m \in {RefWindowSum(ps, k, d) : k \in RefStarts(ps, d)} :
    \A k \in RefStarts(ps, d) : RefWindowSum(ps, k, d) <= m

RefFirstStart(ps, d) ==
  CHOOSE k \in RefStarts(ps, d) :
    /\ RefWindowSum(ps, k, d) = RefMaxSum(ps, d)
    /\ \A j \in RefStarts(ps, d) : RefWindowSum(ps, j, d) = RefMaxSum(ps, d) => k <= j

RefMaxRounded(ps, d) ==
  CHOOSE m \in {MathRound(RefWindowSum(ps, k, d), d) : k \in RefStarts(ps, d)} :
    \A k \in RefStarts(ps, d) : MathRound(RefWindowSum(ps, k, d), d) <= m

C1_BestPowerMatchesReference ==
  bpPc = "done" =>
    IF durationSeconds > Len(powerStream)
    THEN bpResult = NoBestPower
    ELSE /\ bpResult # NoBestPower
         /\ bpResult.bestPower = RefMaxRounded(powerStream, durationSeconds)
         /\ bpResult.startIndex = RefFirstStart(powerStream, durationSeconds)
         /\ 0 <= bpResult.startIndex
         /\ bpResult.startIndex <= Len(powerStream) - durationSeconds
         /\ (\A i \in 1..Len(powerStream) : powerStream[i] = 0)
              => bpResult = [bestPower |-> 0, startIndex |-> 0]

\* A stream with two windows tied for the maximum, the later one not chosen.
C1_Witness ==
  /\ bpPc = "done"
  /\ durationSeconds = 2
  /\ powerStream = <<0, 2, 1, 2>>
  /\ bpResult.startIndex = 1

(***************************************************************************)
(* FitFileCache, cache.ts.                                                  *)
(*                                                                         *)
(* Every method is an async function: it runs without interruption up to    *)
(* an await and is resumed later.  An awaited file-system call is two       *)
(* steps: the effect of the call on the directory, and the continuation of  *)
(* the method, which runs up to the next file-system call.  Other calls in  *)
(* flight may take steps in between.                                        *)
(***************************************************************************)

\* ---- bounds of the cache model
\* longest buffer handed to set
MaxLen == 3
\* the byte budget maxBytes the instance is constructed with (cache.ts:27)
maxBytes == 2
\* largest value Date.now() returns
MaxClock == 2
\* number of calls issued in one behaviour
MaxCalls == 3
\* number of calls issued in one behaviour of the get/set specification
MaxLruCalls == 4
\* number of calls issued in one behaviour of the concurrent specifications
MaxConcurrentCalls == 2
\* number of calls that can be in flight together
NumSlots == 2

Ids == {1, 2, 3}
Slots == 1..NumSlots

\* Buffers handed to set: the all-zero buffers of one to MaxLen bytes, and a
\* second one-byte buffer, so that equal sizes do not mean equal bytes.
Buffers == {[i \in 1..n |-> 0] : n \in 1..MaxLen} \cup {<<1>>}

\* Files an earlier run may have left in the directory.
OldBuffers == {<<1>>, <<0, 0>>}

NoFile == [exists |-> FALSE]
File(data, mtime) == [exists |-> TRUE, data |-> data, mtime |-> mtime]

\* What get returns: cache.ts:57/69 (null) and cache.ts:65 (the buffer).
NotFound == [found |-> FALSE]
Found(data) == [found |-> TRUE, data |-> data]

\* ---- the Map this.index, kept in insertion order
IndexIds(idx) == {idx[i].id : i \in 1..Len(idx)}

IndexHas(idx, id) == id \in IndexIds(idx)

IndexGet(idx, id) == idx[CHOOSE i \in 1..Len(idx) : idx[i].id = id]

\* A Map.set that adds a second entry for a key already present.
IndexSetAppend(idx, id, size, lastAccess) ==
  Append(idx, [id |-> id, size |-> size, lastAccess |-> lastAccess])

\* Map.set: an existing key keeps its place, a new key goes last.
IndexSet(idx, id, size, lastAccess) ==
  LET e == [id |-> id, size |-> size, lastAccess |-> lastAccess]
  IN  IF IndexHas(idx, id)
      THEN [i \in 1..Len(idx) |-> IF idx[i].id = id THEN e ELSE idx[i]]
      ELSE Append(idx, e)

\* Map.delete
IndexDelete(idx, id) == SelectSeq(idx, LAMBDA e : e.id # id)

RECURSIVE SumSizes(_)
\* cache.ts:136-139 and 119-122: the loop adding up entry.size.
SumSizes(entries) ==
  IF entries = <<>> THEN 0 ELSE Head(entries).size + SumSizes(Tail(entries))

RECURSIVE InsertByLastAccess(_, _)
\* Insert e after every entry that is not newer than it (a stable insertion).
InsertByLastAccess(sorted, e) ==
  IF sorted = <<>> THEN <<e>>
  ELSE IF Head(sorted).lastAccess <= e.lastAccess
       THEN <<Head(sorted)>> \o InsertByLastAccess(Tail(sorted), e)
       ELSE <<e>> \o sorted

RECURSIVE SortByLastAccess(_)
\* cache.ts:144: [...entries].sort((a, b) => a.lastAccess - b.lastAccess);
\* Array.prototype.sort is stable, so equal times keep the Map's order.
SortByLastAccess(entries) ==
  IF entries = <<>> THEN <<>>
  ELSE InsertByLastAccess(SortByLastAccess(SubSeq(entries, 1, Len(entries) - 1)),
                          entries[Len(entries)])

\* Date.now(): the clock does not run backwards; two reads may fall in the
\* same millisecond.
NowValues == {clock} \cup (IF clock < MaxClock THEN {clock + 1} ELSE {})

\* ---- the calls in flight
IdleProc ==
  [pc |-> "idle", op |-> "none", id |-> 0, buf |-> <<>>,
   files |-> {}, cur |-> 0, stat |-> NoFile,
   live |-> FALSE, now |-> 0, rbuf |-> <<>>,
   sorted |-> <<>>, totalBytes |-> 0, evicted |-> {},
   count |-> 0, bytes |-> 0]

InFlight == {p \in Slots : procs[p].pc # "idle"}

\* A get that read its entry object from the Map keeps that object; once the
\* Map holds another object for the id (or none), entry.lastAccess = now
\* (cache.ts:62) no longer changes the Map.
Invalidate(ps, id) ==
  [q \in Slots |->
     IF ps[q].op = "get" /\ ps[q].id = id THEN [ps[q] EXCEPT !.live = FALSE] ELSE ps[q]]

\* The record of a completed call kept in ghost.last.
Done(pr, result) ==
  [op |-> pr.op, id |-> pr.id, buf |-> pr.buf, result |-> result, evicted |-> pr.evicted,
   healed |-> pr.pc = "readErr"]

NoCall ==
  [op |-> "none", id |-> 0, buf |-> <<>>, result |-> FALSE, evicted |-> {}, healed |-> FALSE]

\* The call in slot p returns: its slot is free again.
Return(p, ps, result) ==
  /\ procs' = [ps EXCEPT ![p] = IdleProc]
  /\ ghost' = [ghost EXCEPT !.last = Done(ps[p], result)]

\* The first position of a method after "await this.init()".
BodyPc(op) == IF op = "set" THEN "writeFile" ELSE "body"

\* A method is called (cache.ts:54, 73, 84, 98, 117) and runs into init():
\* cache.ts:31 returns at once when initialized, else cache.ts:32 awaits mkdir.
StartCall(p, ops, ids, maxCalls) ==
  /\ procs[p].pc = "idle"
  /\ \A q \in Slots : q < p => procs[q].pc # "idle"
  /\ ghost.calls < maxCalls
  /\ \E op \in ops, id \in ids, buf \in Buffers :
       /\ op # "set" => buf = <<0>>
       /\ op \in {"clear", "stats"} => id = 1
       /\ procs' = [procs EXCEPT ![p] =
            [IdleProc EXCEPT !.pc = IF initialized THEN BodyPc(op) ELSE "readdir",
                             !.op = op, !.id = id,
                             !.buf = IF op = "set" THEN buf ELSE <<>>]]
  /\ ghost' = [ghost EXCEPT !.calls = @ + 1]
  /\ UNCHANGED <<disk, index, initialized, clock>>
  /\ UNCHANGED notCache

\* cache.ts:51: initialized = true, and init() returns to the method.
InitFinished(p, ps) ==
  /\ initialized' = TRUE
  /\ procs' = [ps EXCEPT ![p].pc = BodyPc(procs[p].op), ![p].files = {}, ![p].cur = 0,
                          ![p].stat = NoFile]

\* cache.ts:35-41: readdir lists the directory; the loop takes a first file
\* and awaits stat on it.  The order of the listing is the file system's.
InitReaddir(p) ==
  /\ procs[p].pc = "readdir"
  /\ LET files == {id \in Ids : disk[id].exists}
     IN  IF files = {}
         THEN InitFinished(p, procs)
         ELSE /\ \E f \in files :
                   procs' = [procs EXCEPT ![p].pc = "stat", ![p].cur = f,
                                          ![p].files = files \ {f}]
              /\ UNCHANGED initialized
  /\ UNCHANGED <<disk, index, clock, ghost>>
  /\ UNCHANGED notCache

\* cache.ts:41: the effect of fs.stat.  A file that has gone makes stat throw,
\* which cache.ts:48 catches: the scan ends there.
InitStat(p) ==
  /\ procs[p].pc = "stat"
  /\ procs' = [procs EXCEPT ![p].pc = "statRet", ![p].stat = disk[procs[p].cur]]
  /\ UNCHANGED <<disk, index, initialized, clock, ghost>>
  /\ UNCHANGED notCache

\* cache.ts:42-46, then the next file of the listing, or cache.ts:51.
InitStatRet(p) ==
  /\ procs[p].pc = "statRet"
  /\ LET pr == procs[p]
     IN  IF ~pr.stat.exists
         THEN /\ InitFinished(p, procs)
              /\ UNCHANGED <<index, ghost>>
         ELSE /\ index' = IndexSet(index, pr.cur, Len(pr.stat.data), pr.stat.mtime)
              /\ ghost' = [ghost EXCEPT !.owner[pr.cur] = <<>>]
              /\ IF pr.files = {}
                 THEN InitFinished(p, Invalidate(procs, pr.cur))
                 ELSE /\ \E f \in pr.files :
                           procs' = [Invalidate(procs, pr.cur) EXCEPT
                                       ![p].pc = "stat", ![p].cur = f,
                                       ![p].files = pr.files \ {f}, ![p].stat = NoFile]
                      /\ UNCHANGED initialized
  /\ UNCHANGED <<disk, clock>>
  /\ UNCHANGED notCache

\* The ghost order of the ids by their latest access, oldest first.
Touch(recency, id) == Append(SelectSeq(recency, LAMBDA x : x # id), id)

\* ---- set, cache.ts:73-82, with evict, cache.ts:135-156

\* A writeFile that leaves a file that already exists as it is.
SetWriteFileExclusive(p) ==
  /\ procs[p].pc = "writeFile"
  /\ disk' = IF disk[procs[p].id].exists THEN disk
             ELSE [disk EXCEPT ![procs[p].id] = File(procs[p].buf, clock)]
  /\ procs' = [procs EXCEPT ![p].pc = "writeRet"]
  /\ UNCHANGED <<index, initialized, clock, ghost>>
  /\ UNCHANGED notCache

\* cache.ts:77: the effect of fs.writeFile.
SetWriteFile(p) ==
  /\ procs[p].pc = "writeFile"
  /\ disk' = [disk EXCEPT ![procs[p].id] = File(procs[p].buf, clock)]
  /\ procs' = [procs EXCEPT ![p].pc = "writeRet"]
  /\ UNCHANGED <<index, initialized, clock, ghost>>
  /\ UNCHANGED notCache

\* cache.ts:141: the test that ends evict() before it removes anything.
WithinBudget(totalBytes) == totalBytes <= maxBytes

\* cache.ts:78-79, then evict() up to its first unlink: cache.ts:136-149.
SetWriteRet(p) ==
  /\ procs[p].pc = "writeRet"
  /\ \E now \in NowValues :
       LET pr == procs[p]
           idx == IndexSet(index, pr.id, Len(pr.buf), now)
           ps == Invalidate(procs, pr.id)
           totalBytes == SumSizes(idx)
           g == [ghost EXCEPT !.recency = Touch(@, pr.id), !.owner[pr.id] = pr.buf]
       IN  /\ clock' = now
           /\ index' = idx
           /\ IF WithinBudget(totalBytes)
              THEN /\ procs' = [ps EXCEPT ![p] = IdleProc]
                   /\ ghost' = [g EXCEPT !.last = Done(pr, "void"), !.setDone = TRUE]
              ELSE /\ procs' = [ps EXCEPT ![p].pc = "evictUnlink",
                                          ![p].sorted = SortByLastAccess(idx),
                                          ![p].totalBytes = totalBytes]
                   /\ ghost' = g
  /\ UNCHANGED <<disk, initialized>>
  /\ UNCHANGED notCache

\* cache.ts:149: the effect of fs.unlink; a file already gone is ignored.
EvictUnlink(p) ==
  /\ procs[p].pc = "evictUnlink"
  /\ disk' = [disk EXCEPT ![Head(procs[p].sorted).id] = NoFile]
  /\ procs' = [procs EXCEPT ![p].pc = "evictRet"]
  /\ UNCHANGED <<index, initialized, clock, ghost>>
  /\ UNCHANGED notCache

\* cache.ts:153-154, then the next round of the loop: cache.ts:146-149.
EvictRet(p) ==
  /\ procs[p].pc = "evictRet"
  /\ LET pr == procs[p]
         victim == Head(pr.sorted)
         totalBytes == pr.totalBytes - victim.size
         rest == Tail(pr.sorted)
         ps == [Invalidate(procs, victim.id) EXCEPT
                  ![p].evicted = pr.evicted \cup {victim.id}]
     IN  /\ index' = IndexDelete(index, victim.id)
         /\ IF rest = <<>> \/ WithinBudget(totalBytes)
            THEN /\ procs' = [ps EXCEPT ![p] = IdleProc]
                 /\ ghost' = [ghost EXCEPT !.last = Done(ps[p], "void"), !.setDone = TRUE]
            ELSE /\ procs' = [ps EXCEPT ![p].pc = "evictUnlink", ![p].sorted = rest,
                                        ![p].totalBytes = totalBytes]
                 /\ UNCHANGED ghost
  /\ UNCHANGED <<disk, initialized, clock>>
  /\ UNCHANGED notCache

\* ---- get, cache.ts:54-71

\* cache.ts:56-60: a miss returns null; a hit awaits readFile.
GetBody(p) ==
  /\ procs[p].pc = "body" /\ procs[p].op = "get"
  /\ IF IndexHas(index, procs[p].id)
     THEN /\ procs' = [procs EXCEPT ![p].pc = "readFile", ![p].live = TRUE]
          /\ UNCHANGED ghost
     ELSE Return(p, procs, NotFound)
  /\ UNCHANGED <<disk, index, initialized, clock>>
  /\ UNCHANGED notCache

\* cache.ts:60: the effect of fs.readFile; it throws when the file has gone.
GetReadFile(p) ==
  /\ procs[p].pc = "readFile"
  /\ LET f == disk[procs[p].id]
     IN  procs' = IF f.exists
                  THEN [procs EXCEPT ![p].pc = "readRet", ![p].rbuf = f.data]
                  ELSE [procs EXCEPT ![p].pc = "readErr"]
  /\ UNCHANGED <<disk, index, initialized, clock, ghost>>
  /\ UNCHANGED notCache

\* cache.ts:61-64: entry.lastAccess = now on the entry object read at
\* cache.ts:56, then utimes is awaited.
GetReadRet(p) ==
  /\ procs[p].pc = "readRet"
  /\ \E now \in NowValues :
       /\ clock' = now
       /\ index' = IF procs[p].live
                   THEN [i \in 1..Len(index) |->
                           IF index[i].id = procs[p].id
                           THEN [index[i] EXCEPT !.lastAccess = now] ELSE index[i]]
                   ELSE index
       /\ procs' = [procs EXCEPT ![p].pc = "utimes", ![p].now = now]
  /\ ghost' = [ghost EXCEPT !.recency = IF procs[p].live THEN Touch(@, procs[p].id) ELSE @]
  /\ UNCHANGED <<disk, initialized>>
  /\ UNCHANGED notCache

\* cache.ts:64-65: the effect of fs.utimes (a failure is swallowed), and the
\* buffer is returned.
GetUtimes(p) ==
  /\ procs[p].pc = "utimes"
  /\ LET id == procs[p].id
     IN  disk' = IF disk[id].exists
                 THEN [disk EXCEPT ![id].mtime = procs[p].now] ELSE disk
  /\ Return(p, procs, Found(procs[p].rbuf))
  /\ UNCHANGED <<index, initialized, clock>>
  /\ UNCHANGED notCache

\* A catch block that returns null and leaves the stale entry in the index.
GetReadErrKeepsEntry(p) ==
  /\ procs[p].pc = "readErr"
  /\ Return(p, procs, NotFound)
  /\ UNCHANGED <<disk, index, initialized, clock>>
  /\ UNCHANGED notCache

\* cache.ts:66-70: the file disappeared; the entry leaves the index.
GetReadErr(p) ==
  /\ procs[p].pc = "readErr"
  /\ index' = IndexDelete(index, procs[p].id)
  /\ Return(p, Invalidate(procs, procs[p].id), NotFound)
  /\ UNCHANGED <<disk, initialized, clock>>
  /\ UNCHANGED notCache

\* ---- delete, cache.ts:84-96
DeleteBody(p) ==
  /\ procs[p].pc = "body" /\ procs[p].op = "delete"
  /\ IF IndexHas(index, procs[p].id)
     THEN /\ procs' = [procs EXCEPT ![p].pc = "delUnlink"]
          /\ UNCHANGED ghost
     ELSE Return(p, procs, FALSE)
  /\ UNCHANGED <<disk, index, initialized, clock>>
  /\ UNCHANGED notCache

\* cache.ts:90: the effect of fs.unlink.
DeleteUnlink(p) ==
  /\ procs[p].pc = "delUnlink"
  /\ disk' = [disk EXCEPT ![procs[p].id] = NoFile]
  /\ procs' = [procs EXCEPT ![p].pc = "delRet"]
  /\ UNCHANGED <<index, initialized, clock, ghost>>
  /\ UNCHANGED notCache

\* A delete that answers true and leaves the entry in the index.
DeleteRetKeepsEntry(p) ==
  /\ procs[p].pc = "delRet"
  /\ Return(p, procs, TRUE)
  /\ UNCHANGED <<disk, index, initialized, clock>>
  /\ UNCHANGED notCache

\* cache.ts:94-95
DeleteRet(p) ==
  /\ procs[p].pc = "delRet"
  /\ index' = IndexDelete(index, procs[p].id)
  /\ Return(p, Invalidate(procs, procs[p].id), TRUE)
  /\ UNCHANGED <<disk, initialized, clock>>
  /\ UNCHANGED notCache

\* ---- stats, cache.ts:117-129
StatsBody(p) ==
  /\ procs[p].pc = "body" /\ procs[p].op = "stats"
  /\ Return(p, procs,
            [entries |-> Len(index), totalBytes |-> SumSizes(index), maxBytes |-> maxBytes])
  /\ UNCHANGED <<disk, index, initialized, clock>>
  /\ UNCHANGED notCache

\* ---- clear, cache.ts:98-115.  The loop walks the live Map; the model runs
\* clear only while no other call is in flight, so the entry the iterator
\* yields next is the first one left in the Map.
ClearBody(p) ==
  /\ procs[p].pc = "body" /\ procs[p].op = "clear"
  /\ InFlight = {p}
  /\ IF index = <<>>
     THEN /\ procs' = [procs EXCEPT ![p] = IdleProc]
          /\ ghost' = [ghost EXCEPT !.last = Done(procs[p], [count |-> 0, bytes |-> 0]),
                                    !.atClear = <<>>]
     ELSE /\ procs' = [procs EXCEPT ![p].pc = "clearUnlink", ![p].sorted = <<Head(index)>>]
          /\ ghost' = [ghost EXCEPT !.atClear = index]
  /\ UNCHANGED <<disk, index, initialized, clock>>
  /\ UNCHANGED notCache

\* cache.ts:105: the effect of fs.unlink.
ClearUnlink(p) ==
  /\ procs[p].pc = "clearUnlink"
  /\ disk' = [disk EXCEPT ![Head(procs[p].sorted).id] = NoFile]
  /\ procs' = [procs EXCEPT ![p].pc = "clearRet"]
  /\ UNCHANGED <<index, initialized, clock, ghost>>
  /\ UNCHANGED notCache

\* A loop that ends after its first entry.
ClearRetFirstOnly(p) ==
  /\ procs[p].pc = "clearRet"
  /\ LET pr == procs[p]
         entry == Head(pr.sorted)
     IN  /\ index' = IndexDelete(index, entry.id)
         /\ Return(p, procs, [count |-> pr.count + 1, bytes |-> pr.bytes + entry.size])
  /\ UNCHANGED <<disk, initialized, clock>>
  /\ UNCHANGED notCache

\* cache.ts:109-111, then the next entry of the iteration, or cache.ts:114.
ClearRet(p) ==
  /\ procs[p].pc = "clearRet"
  /\ LET pr == procs[p]
         entry == Head(pr.sorted)
         idx == IndexDelete(index, entry.id)
         bytes == pr.bytes + entry.size
         count == pr.count + 1
     IN  /\ index' = idx
         /\ IF idx = <<>>
            THEN Return(p, procs, [count |-> count, bytes |-> bytes])
            ELSE /\ procs' = [procs EXCEPT ![p].pc = "clearUnlink",
                                           ![p].sorted = <<Head(idx)>>,
                                           ![p].bytes = bytes, ![p].count = count]
                 /\ UNCHANGED ghost
  /\ UNCHANGED <<disk, initialized, clock>>
  /\ UNCHANGED notCache

\* ---- the environment: a cached file is removed behind the cache's back
\* (once in a behaviour).
ExternalUnlink ==
  /\ ~ghost.tampered
  /\ \E id \in Ids :
       /\ disk[id].exists
       /\ disk' = [disk EXCEPT ![id] = NoFile]
  /\ ghost' = [ghost EXCEPT !.tampered = TRUE]
  /\ UNCHANGED <<index, initialized, clock, procs>>
  /\ UNCHANGED notCache

\* ---- the process ends and a new one constructs a cache on the same
\* directory (cache.ts:21-28): an empty index, not initialized.  The files
\* and the clock stay.
Restart ==
  /\ \A p \in Slots : procs[p].pc = "idle"
  /\ initialized /\ ~ghost.restarted
  /\ index' = <<>>
  /\ initialized' = FALSE
  /\ ghost' = [ghost EXCEPT !.restarted = TRUE, !.before = index]
  /\ UNCHANGED <<disk, clock, procs>>
  /\ UNCHANGED notCache

\* ---- specifications of the cache

\* ghost: the number of calls issued, whether a file was removed from outside,
\* the call that completed last, the ids in the order of their latest
\* access, whether a set has completed, and for each id the buffer of the
\* set that wrote its index entry (<<>> for an entry the scan made), and the
\* index that the latest clear found; whether the process was restarted and
\* the index the instance before the restart held.
NoHistory ==
  [calls |-> 0, tampered |-> FALSE, last |-> NoCall, recency |-> <<>>,
   setDone |-> FALSE, owner |-> [id \in Ids |-> <<>>], atClear |-> <<>>,
   restarted |-> FALSE, before |-> <<>>]

CacheIdle ==
  /\ disk = [id \in Ids |-> NoFile]
  /\ index = <<>>
  /\ initialized = FALSE
  /\ clock = 0
  /\ procs = [p \in Slots |-> IdleProc]
  /\ ghost = NoHistory

\* A new instance on a directory that holds the files an earlier run left,
\* all written before this one started.
CacheInit(ids) ==
  /\ disk \in [Ids -> {NoFile} \cup {File(b, 0) : b \in OldBuffers}]
  /\ \A id \in Ids \ ids : disk[id] = NoFile
  /\ index = <<>>
  /\ initialized = FALSE
  /\ clock = 1
  /\ procs = [p \in Slots |-> IdleProc]
  /\ ghost = NoHistory

(***************************************************************************)
(* buildPowerDurationCurve, power.ts:134-224.  The call awaits getWorkouts, *)
(* then downloads and decodes the Bike workouts in batches of batchSize     *)
(* concurrent tasks, and computes the curve when the last batch is done.    *)
(* A task is the async callback of batch.map (power.ts:154-180); it awaits  *)
(* downloadActivityFile and then decodeFitBuffer.  The decoder              *)
(* (fit-utils.ts) and the client are the environment: what they deliver is  *)
(* drawn when the awaited promise settles.                                  *)
(***************************************************************************)
\* most workouts getWorkouts returns
MaxWorkouts == 6
\* most workouts of one call that the environment lets fail
MaxSkipped == 2

\* power.ts:150
batchSize == 5

\* power.ts:103
DEFAULT_DURATIONS == <<5, 10, 20, 30, 60, 90, 120, 180, 240, 300, 360, 600, 1200>>

\* The ids are listed in descending order, so the order of the list and the
\* order of the ids differ.
WorkoutIdAt(pos) == MaxWorkouts + 1 - pos

\* The lists getWorkouts may resolve with: n workouts, all of them 'Bike'
\* except the one at position runAt (0: none).
WorkoutList(n, runAt) ==
  [pos \in 1..n |-> [workoutId |-> WorkoutIdAt(pos),
                     workoutType |-> IF pos = runAt THEN "Run" ELSE "Bike"]]

WorkoutLists == {WorkoutList(n, runAt) : n \in 0..MaxWorkouts, runAt \in {0, 2}}

\* The arguments of the calls: durations and exclude_workout_ids are optional.
PdcDates == [startDate |-> "2024-01-01", endDate |-> "2024-01-31"]

PdcArgs ==
  {PdcDates,
   PdcDates @@ [durations |-> <<1, 3, 2>>],
   PdcDates @@ [durations |-> <<2, 1>>, exclude_workout_ids |-> {WorkoutIdAt(1)}]}

\* Record messages of a decoded file: with a numeric power field or without.
WithPower(p) == [power |-> p]
WithoutPower == [heartRate |-> 140]

\* What decodeFitBuffer may resolve with: no recordMesgs at all, none, records
\* without power, and two recordings with power.
FitMessages ==
  {[lapMesgs |-> <<>>]}
    \cup {[recordMesgs |-> r] :
            r \in {<<>>,
                   <<WithoutPower, WithPower(0)>>,
                   <<WithPower(1)>>,
                   <<WithPower(1), WithPower(2), WithoutPower>>}}

\* power.ts:167-169: the power of each record, 0 where it is not a number.
PowerStreamOf(recordMesgs) ==
  [i \in 1..Len(recordMesgs) |->
     IF "power" \in DOMAIN recordMesgs[i] THEN recordMesgs[i].power ELSE 0]

\* power.ts:170: powerStream.some((p) => p > 0)
SomePositive(ps) == \E i \in 1..Len(ps) : ps[i] > 0

\* The null a task returns for a skipped workout.
NullResult == [null |-> TRUE]

\* What the environment delivered to a task: kept with the task for stating
\* the properties.
Outcome(kind) == [kind |-> kind]
Decoded(messages) == [kind |-> "decoded", messages |-> messages]

WaitingTask == [pc |-> "waiting", outcome |-> Outcome("none"), result |-> NullResult]

PdcIdle ==
  /\ pdcPc = "idle"
  /\ pdcArgs = PdcDates
  /\ allWorkouts = <<>>
  /\ cyclingWorkouts = <<>>
  /\ batchStart = 0
  /\ tasks = <<>>
  /\ warnings = <<>>
  /\ workoutPowerStreams = <<>>
  /\ pdcResult = NullResult

\* The call has been made and awaits getWorkouts (power.ts:141).
PdcInit ==
  /\ pdcPc = "getWorkouts"
  /\ pdcArgs \in PdcArgs
  /\ allWorkouts = <<>>
  /\ cyclingWorkouts = <<>>
  /\ batchStart = 0
  /\ tasks = <<>>
  /\ warnings = <<>>
  /\ workoutPowerStreams = <<>>
  /\ pdcResult = NullResult

\* power.ts:119-125: the label `${seconds}s`, `${mins}min` or
\* `${mins}min ${secs}s`, as the numbers printed and the form chosen.
formatDuration(seconds) ==
  IF seconds < 60 THEN [form |-> "Ns", mins |-> 0, secs |-> seconds]
  ELSE LET mins == seconds \div 60
           secs == seconds % 60
       IN  IF secs = 0 THEN [form |-> "Nmin", mins |-> mins, secs |-> 0]
           ELSE [form |-> "Nmin Ms", mins |-> mins, secs |-> secs]

\* The order of the request, kept.
Unsorted(s) == s

RECURSIVE InsertAscending(_, _)
\* Where a stable ascending sort puts x among the sorted s: after its equals.
InsertAscending(s, x) ==
  IF s = <<>> THEN <<x>>
  ELSE IF x < Head(s) THEN <<x>> \o s
  ELSE <<Head(s)>> \o InsertAscending(Tail(s), x)

RECURSIVE SortAscending(_)
\* power.ts:188: [...durations].sort((a, b) => a - b)
SortAscending(s) ==
  IF s = <<>> THEN <<>>
  ELSE InsertAscending(SortAscending(SubSeq(s, 1, Len(s) - 1)), s[Len(s)])

\* A later workout that replaces the best one on an equal value.
BetterOrEqual(candidate, bestPower) == candidate >= bestPower

\* power.ts:197: result.bestPower > bestPower
Better(candidate, bestPower) == candidate > bestPower

RECURSIVE BestOver(_, _, _, _, _)
\* power.ts:195-201: the loop over workoutPowerStreams from position k with
\* the running state (bestPower, bestWorkout).
BestOver(wps, duration, k, bestPower, bestWorkout) ==
  IF k > Len(wps) THEN [bestPower |-> bestPower, bestWorkout |-> bestWorkout]
  ELSE LET result == computeBestPower(wps[k].powerStream, duration)
       IN  IF result # NoBestPower /\ Better(result.bestPower, bestPower)
           THEN BestOver(wps, duration, k + 1, result.bestPower, wps[k].workout)
           ELSE BestOver(wps, duration, k + 1, bestPower, bestWorkout)

\* A point for every duration, also when no workout is long enough.
CurvePointAlways(wps, duration) ==
  LET best == BestOver(wps, duration, 1, -1, NullResult)
  IN  [durationSeconds |-> duration,
       durationLabel |-> formatDuration(duration),
       bestPowerWatts |-> best.bestPower,
       workoutId |-> IF best.bestWorkout = NullResult THEN 0
                     ELSE best.bestWorkout.workoutId]

\* power.ts:191-213: the point of one duration, or null.  workoutDate and
\* workoutTitle are read from the same bestWorkout as workoutId.
CurvePoint(wps, duration) ==
  LET best == BestOver(wps, duration, 1, -1, NullResult)
  IN  IF best.bestWorkout = NullResult \/ best.bestPower < 0 THEN NullResult
      ELSE [durationSeconds |-> duration,
            durationLabel |-> formatDuration(duration),
            bestPowerWatts |-> best.bestPower,
            workoutId |-> best.bestWorkout.workoutId]

\* power.ts:188-214: map over the sorted durations, nulls filtered out.
Curve(wps, durations) ==
  LET sortedDurations == SortAscending(durations)
      points == [i \in 1..Len(sortedDurations) |-> CurvePoint(wps, sortedDurations[i])]
  IN  SelectSeq(points, LAMBDA p : p # NullResult)

\* power.ts:138
DurationsOf(args) ==
  IF "durations" \in DOMAIN args THEN args.durations ELSE DEFAULT_DURATIONS

\* power.ts:139
ExcludeSetOf(args) ==
  IF "exclude_workout_ids" \in DOMAIN args THEN args.exclude_workout_ids ELSE {}

\* power.ts:216-223
PdcReturn(args, cycling, wps, warns) ==
  [startDate |-> args.startDate,
   endDate |-> args.endDate,
   workoutsAnalysed |-> Len(wps),
   workoutsSkipped |-> Len(cycling) - Len(wps),
   curve |-> Curve(wps, DurationsOf(args)),
   warnings |-> warns]

\* ---- the steps of a call

\* A slice that is one workout longer than batchSize.
BatchOfOneMore(i, n) == {j \in 1..n : i < j /\ j <= i + batchSize + 1}

\* power.ts:152: the positions of cyclingWorkouts.slice(i, i + batchSize)
Batch(i, n) == {j \in 1..n : i < j /\ j <= i + batchSize}

\* power.ts:153-154: batch.map starts the task of every workout of the batch;
\* each runs up to its await of downloadActivityFile.
StartBatch(ts, i) ==
  [j \in 1..Len(ts) |-> IF j \in Batch(i, Len(ts)) THEN [ts[j] EXCEPT !.pc = "download"]
                        ELSE ts[j]]

\* power.ts:183-185: the results of the batch that are not null, in the
\* order of the batch.
BatchResults(ts, i) ==
  LET last == IF i + batchSize < Len(ts) THEN i + batchSize ELSE Len(ts)
      results == [k \in 1..(last - i) |-> ts[i + k].result]
  IN  SelectSeq(results, LAMBDA r : r # NullResult)

\* power.ts:151-152, 188-223: the loop head at index i; either the next batch
\* starts or the loop is over and the call returns.
LoopHead(i, ts, wps) ==
  IF i < Len(cyclingWorkouts')
  THEN /\ tasks' = StartBatch(ts, i)
       /\ pdcPc' = "fetching"
       /\ pdcResult' = pdcResult
  ELSE /\ tasks' = ts
       /\ pdcPc' = "resolved"
       /\ pdcResult' = PdcReturn(pdcArgs, cyclingWorkouts', wps, warnings')

\* power.ts:141-152: getWorkouts resolves; the Bike workouts that are not
\* excluded are kept and the first batch starts.
GetWorkoutsResolves ==
  /\ pdcPc = "getWorkouts"
  /\ \E ws \in WorkoutLists :
       /\ allWorkouts' = ws
       /\ cyclingWorkouts' =
            SelectSeq(ws, LAMBDA w : w.workoutType = "Bike"
                                       /\ w.workoutId \notin ExcludeSetOf(pdcArgs))
  /\ batchStart' = 0
  /\ warnings' = <<>>
  /\ workoutPowerStreams' = <<>>
  /\ LoopHead(0, [j \in 1..Len(cyclingWorkouts') |-> WaitingTask], <<>>)
  /\ UNCHANGED pdcArgs
  /\ UNCHANGED notPdc

\* power.ts:141: getWorkouts rejects and so does the call.
GetWorkoutsRejects ==
  /\ pdcPc = "getWorkouts"
  /\ pdcPc' = "rejected"
  /\ UNCHANGED <<pdcArgs, allWorkouts, cyclingWorkouts, batchStart, tasks,
                 warnings, workoutPowerStreams, pdcResult>>
  /\ UNCHANGED notPdc

MaySkip == Len(warnings) < MaxSkipped

\* Task j of the batch in flight is at the await named pc.
TaskAt(j, pc) == pdcPc = "fetching" /\ j \in DOMAIN tasks /\ tasks[j].pc = pc

\* A task that ends with null and without a warning.
SkipSilently(j, outcome, reason) ==
  /\ tasks' = [tasks EXCEPT ![j] = [pc |-> "done", outcome |-> outcome,
                                    result |-> NullResult]]
  /\ UNCHANGED <<pdcPc, pdcArgs, allWorkouts, cyclingWorkouts, batchStart,
                 warnings, workoutPowerStreams, pdcResult>>
  /\ UNCHANGED notPdc

\* A task that ends with a warning and null.
Skip(j, outcome, reason) ==
  /\ warnings' = Append(warnings, [workoutId |-> cyclingWorkouts[j].workoutId,
                                   reason |-> reason])
  /\ tasks' = [tasks EXCEPT ![j] = [pc |-> "done", outcome |-> outcome,
                                    result |-> NullResult]]
  /\ UNCHANGED <<pdcPc, pdcArgs, allWorkouts, cyclingWorkouts, batchStart,
                 workoutPowerStreams, pdcResult>>
  /\ UNCHANGED notPdc

\* An exception that escapes the task: Promise.all rejects and with it the call.
TaskThrowsUncaught(j, outcome, message) ==
  /\ pdcPc' = "rejected"
  /\ tasks' = [tasks EXCEPT ![j] = [pc |-> "done", outcome |-> outcome,
                                    result |-> NullResult]]
  /\ UNCHANGED <<pdcArgs, allWorkouts, cyclingWorkouts, batchStart,
                 warnings, workoutPowerStreams, pdcResult>>
  /\ UNCHANGED notPdc

\* power.ts:175-180: the catch block of the task.
TaskThrows(j, outcome, message) == Skip(j, outcome, message)

\* power.ts:156-160: downloadActivityFile resolves with null.
DownloadNoFile(j) ==
  /\ TaskAt(j, "download") /\ MaySkip
  /\ Skip(j, Outcome("no file"), "no activity file")

\* power.ts:156: downloadActivityFile rejects.
DownloadThrows(j) ==
  /\ TaskAt(j, "download") /\ MaySkip
  /\ TaskThrows(j, Outcome("download threw"), "Request failed")

\* power.ts:156-161: downloadActivityFile resolves with a buffer and the task
\* awaits decodeFitBuffer.
DownloadResolves(j) ==
  /\ TaskAt(j, "download")
  /\ tasks' = [tasks EXCEPT ![j].pc = "decode"]
  /\ UNCHANGED <<pdcPc, pdcArgs, allWorkouts, cyclingWorkouts, batchStart,
                 warnings, workoutPowerStreams, pdcResult>>
  /\ UNCHANGED notPdc

\* power.ts:161: decodeFitBuffer rejects.
DecodeThrows(j) ==
  /\ TaskAt(j, "decode") /\ MaySkip
  /\ TaskThrows(j, Outcome("decode threw"), "Invalid FIT file")

\* What the task makes of the decoded messages (power.ts:162-174).
HasRecords(messages) ==
  "recordMesgs" \in DOMAIN messages /\ Len(messages.recordMesgs) > 0

Analysable(messages) ==
  HasRecords(messages) /\ SomePositive(PowerStreamOf(messages.recordMesgs))

\* power.ts:161-174: decodeFitBuffer resolves.
DecodeResolves(j) ==
  /\ TaskAt(j, "decode")
  /\ \E messages \in FitMessages :
       IF ~HasRecords(messages)
       THEN MaySkip /\ Skip(j, Decoded(messages), "no record data in FIT file")
       ELSE IF ~SomePositive(PowerStreamOf(messages.recordMesgs))
       THEN MaySkip /\ Skip(j, Decoded(messages), "no power data")
       ELSE /\ tasks' = [tasks EXCEPT ![j] =
                 [pc |-> "done", outcome |-> Decoded(messages),
                  result |-> [workout |-> cyclingWorkouts[j],
                              powerStream |-> PowerStreamOf(messages.recordMesgs)]]]
            /\ UNCHANGED <<pdcPc, pdcArgs, allWorkouts, cyclingWorkouts, batchStart,
                           warnings, workoutPowerStreams, pdcResult>>
            /\ UNCHANGED notPdc

\* power.ts:153-185, 151: every task of the batch has returned, Promise.all
\* resolves, the results are pushed and the loop goes on.
BatchDone ==
  /\ pdcPc = "fetching"
  /\ \A j \in Batch(batchStart, Len(tasks)) : tasks[j].pc = "done"
  /\ workoutPowerStreams' = workoutPowerStreams \o BatchResults(tasks, batchStart)
  /\ batchStart' = batchStart + batchSize
  /\ UNCHANGED <<pdcArgs, allWorkouts, cyclingWorkouts, warnings>>
  /\ LoopHead(batchStart', tasks, workoutPowerStreams')
  /\ UNCHANGED notPdc

PdcNext ==
  \/ GetWorkoutsResolves
  \/ GetWorkoutsRejects
  \/ \E j \in 1..MaxWorkouts :
       \/ DownloadNoFile(j) \/ DownloadThrows(j) \/ DownloadResolves(j)
       \/ DecodeThrows(j) \/ DecodeResolves(j)
  \/ BatchDone

(***************************************************************************)
(* compareIntervals, workouts.ts:128-262 (filterLaps, buildSummary,         *)
(* parseLapsFromFit, compareIntervals).  An optional field that is          *)
(* undefined is a field the record does not have, which is also how         *)
(* JSON.stringify prints it; a value that is a number or null is <<n>> or   *)
(* <<>>.                                                                    *)
(***************************************************************************)
\* most workout ids of one request
MaxRequested == 2

CiIds == {1, 2}

\* workouts.ts:96-100: the default of durationTolerance
DefaultDurationTolerance == 2

CiArgs ==
  LET idLists == SeqsUpTo(CiIds, MaxRequested) \ {<<>>}
      base(ids) == [workoutIds |-> ids, durationTolerance |-> DefaultDurationTolerance]
  IN  {base(ids) : ids \in idLists}
        \cup {base(ids) @@ [minPower |-> 2] : ids \in idLists}
        \cup {base(ids) @@ [minPower |-> 2, targetDuration |-> 10] : ids \in idLists}

\* What getWorkoutDetails may resolve with: title and completedDate are optional.
Details(id) ==
  {[workoutId |-> id, workoutDay |-> "2024-01-01"],
   [workoutId |-> id, workoutDay |-> "2024-01-01", title |-> "Ride",
    completedDate |-> "2024-01-02"]}

\* What decodeFitBuffer may resolve with for a lap file.
LapMessages ==
  {[recordMesgs |-> <<>>],
   [lapMesgs |-> <<>>],
   [lapMesgs |-> <<[totalElapsedTime |-> 10, avgPower |-> 2, maxPower |-> 3,
                    avgCadence |-> 90]>>],
   [lapMesgs |-> <<[totalElapsedTime |-> 13, avgPower |-> 1],
                   [avgPower |-> 4, avgCadence |-> 80],
                   [totalElapsedTime |-> 12]>>]}

Pending == [state |-> "pending"]
Settled(value) == [state |-> "settled", value |-> value]

\* null, and a buffer whose bytes only the decoder reads
NoBuffer == [null |-> TRUE]
SomeBuffer == [null |-> FALSE]

Nothing == <<>>
Just(n) == <<n>>

\* The record without fields.
NoFields == [k \in {} |-> 0]

\* The field `name` holding rec[field] when rec has that field.
Optional(name, rec, field) ==
  IF field \in DOMAIN rec THEN name :> rec[field] ELSE NoFields

\* A lap numbered by its 0-based index.
WorkoutLapNumberedFromZero(lap, i) ==
  [lapNumber |-> i]
    @@ Optional("duration", lap, "totalElapsedTime")
    @@ Optional("distance", lap, "totalDistance")
    @@ Optional("averageHeartRate", lap, "avgHeartRate")
    @@ Optional("maxHeartRate", lap, "maxHeartRate")
    @@ Optional("averagePower", lap, "avgPower")
    @@ Optional("maxPower", lap, "maxPower")
    @@ Optional("averageCadence", lap, "avgCadence")

\* workouts.ts:189-198: the WorkoutLap of lap message `lap` at 0-based index i.
WorkoutLapOf(lap, i) ==
  [lapNumber |-> i + 1]
    @@ Optional("duration", lap, "totalElapsedTime")
    @@ Optional("distance", lap, "totalDistance")
    @@ Optional("averageHeartRate", lap, "avgHeartRate")
    @@ Optional("maxHeartRate", lap, "maxHeartRate")
    @@ Optional("averagePower", lap, "avgPower")
    @@ Optional("maxPower", lap, "maxPower")
    @@ Optional("averageCadence", lap, "avgCadence")

\* workouts.ts:184-198: the laps of decoded messages.
LapsOfMessages(messages) ==
  IF "lapMesgs" \notin DOMAIN messages \/ Len(messages.lapMesgs) = 0 THEN <<>>
  ELSE [i \in 1..Len(messages.lapMesgs) |-> WorkoutLapOf(messages.lapMesgs[i], i - 1)]

Abs(n) == IF n < 0 THEN -n ELSE n

\* workouts.ts:134-136: (l.averagePower ?? 0) >= args.minPower
PassesMinPower(l, args) ==
  (IF "averagePower" \in DOMAIN l THEN l.averagePower ELSE 0) >= args.minPower

\* A tolerance whose bounds are not included.
PassesTargetDurationStrict(l, args) ==
  IF "duration" \notin DOMAIN l THEN FALSE
  ELSE Abs(l.duration - args.targetDuration) < args.durationTolerance

\* workouts.ts:140-143
PassesTargetDuration(l, args) ==
  IF "duration" \notin DOMAIN l THEN FALSE
  ELSE Abs(l.duration - args.targetDuration) <= args.durationTolerance

\* workouts.ts:128-147
filterLaps(laps, args) ==
  LET byPower == IF "minPower" \in DOMAIN args
                 THEN SelectSeq(laps, LAMBDA l : PassesMinPower(l, args))
                 ELSE laps
  IN  IF "targetDuration" \in DOMAIN args
      THEN SelectSeq(byPower, LAMBDA l : PassesTargetDuration(l, args))
      ELSE byPower

\* laps.map((l) => l[field]).filter((x) => x !== undefined)
Defined(laps, field) ==
  LET having == SelectSeq(laps, LAMBDA l : field \in DOMAIN l)
  IN  [i \in 1..Len(having) |-> having[i][field]]

RECURSIVE SumOf(_)
SumOf(s) == IF s = <<>> THEN 0 ELSE Head(s) + SumOf(Tail(s))

RECURSIVE MinOf(_, _)
\* reduce((a, b) => (b < a ? b : a), a)
MinOf(s, a) == IF s = <<>> THEN a ELSE MinOf(Tail(s), IF Head(s) < a THEN Head(s) ELSE a)

RECURSIVE MaxOf(_, _)
\* reduce((a, b) => (b > a ? b : a), a)
MaxOf(s, a) == IF s = <<>> THEN a ELSE MaxOf(Tail(s), IF Head(s) > a THEN Head(s) ELSE a)

\* A mean that is truncated instead of rounded.
TruncatedMean(s) == IF Len(s) > 0 THEN Just(SumOf(s) \div Len(s)) ELSE Nothing

\* workouts.ts:153, 159: the rounded mean of the values, null when there is none.
RoundedMean(s) == IF Len(s) > 0 THEN Just(MathRound(SumOf(s), Len(s))) ELSE Nothing

\* workouts.ts:161: detail.completedDate ?? detail.workoutDay
DateOf(detail) ==
  IF "completedDate" \in DOMAIN detail THEN detail.completedDate ELSE detail.workoutDay

\* workouts.ts:149-174
buildSummary(detail, laps) ==
  LET powers == Defined(laps, "averagePower")
      cadences == Defined(laps, "averageCadence")
      minPower == IF Len(powers) > 0 THEN Just(MinOf(powers, powers[1])) ELSE Nothing
      maxPower == IF Len(powers) > 0 THEN Just(MaxOf(powers, powers[1])) ELSE Nothing
      durations == [i \in 1..Len(laps) |->
                      IF "duration" \in DOMAIN laps[i] THEN laps[i].duration ELSE 0]
  IN  [workoutId |-> detail.workoutId,
       date |-> DateOf(detail),
       lapCount |-> Len(laps),
       avgPower |-> RoundedMean(powers),
       minPower |-> minPower,
       maxPower |-> maxPower,
       powerRange |-> IF minPower # Nothing /\ maxPower # Nothing
                      THEN Just(maxPower[1] - minPower[1]) ELSE Nothing,
       avgCadence |-> RoundedMean(cadences),
       totalDuration |-> SumOf(durations)]
    @@ Optional("title", detail, "title")

\* A value that prints 0 for the metrics of a lap that does not exist.
LapValueOfZeroed(w, i) ==
  LET lap == IF i + 1 <= Len(w.laps) THEN w.laps[i + 1]
             ELSE [averagePower |-> 0, maxPower |-> 0, averageCadence |-> 0, duration |-> 0]
  IN  [workoutId |-> w.detail.workoutId, date |-> DateOf(w.detail)]
        @@ Optional("title", w.detail, "title")
        @@ Optional("avgPower", lap, "averagePower")
        @@ Optional("maxPower", lap, "maxPower")
        @@ Optional("avgCadence", lap, "averageCadence")
        @@ Optional("duration", lap, "duration")

\* workouts.ts:239-250: the value of one workout in row i (0-based); the
\* fields of a lap that does not exist are undefined.
LapValueOf(w, i) ==
  LET lap == IF i + 1 <= Len(w.laps) THEN w.laps[i + 1] ELSE NoFields
  IN  [workoutId |-> w.detail.workoutId, date |-> DateOf(w.detail)]
        @@ Optional("title", w.detail, "title")
        @@ Optional("avgPower", lap, "averagePower")
        @@ Optional("maxPower", lap, "maxPower")
        @@ Optional("avgCadence", lap, "averageCadence")
        @@ Optional("duration", lap, "duration")

\* workouts.ts:235-253: the rows of laps aligned by position.
AlignLaps(wl) ==
  LET maxLaps == MaxOf([j \in 1..Len(wl) |-> Len(wl[j].laps)], 0)
  IN  [i \in 1..maxLaps |->
         [lapNumber |-> i, values |-> [j \in 1..Len(wl) |-> LapValueOf(wl[j], i - 1)]]]

\* workouts.ts:254-261: the object that is printed; warnings only when there
\* are some.
CiReturnValue(wl, warns) ==
  [laps |-> AlignLaps(wl),
   summaries |-> [j \in 1..Len(wl) |-> buildSummary(wl[j].detail, wl[j].laps)]]
    @@ (IF Len(warns) > 0 THEN [warnings |-> warns] ELSE NoFields)

\* workouts.ts:224, 228: the warning of a workout, `Workout ${id} (${title ??
\* 'Untitled'}): ${reason}`.
CiWarning(detail, reason) ==
  [workoutId |-> detail.workoutId,
   title |-> IF "title" \in DOMAIN detail THEN detail.title ELSE "Untitled",
   reason |-> reason]

CiIdle ==
  /\ ciPc = "idle"
  /\ ciArgs = [workoutIds |-> <<>>, durationTolerance |-> DefaultDurationTolerance]
  /\ fetches = <<>>
  /\ workoutLaps = <<>>
  /\ ciWarnings = <<>>
  /\ ciResult = NoFields

\* workouts.ts:206-214: the call has started both requests of every workout
\* and awaits them.
CiInit ==
  /\ ciPc = "fetching"
  /\ ciArgs \in CiArgs
  /\ fetches = [j \in 1..Len(ciArgs.workoutIds) |-> [detail |-> Pending, fitBuffer |-> Pending]]
  /\ workoutLaps = <<>>
  /\ ciWarnings = <<>>
  /\ ciResult = NoFields

Fetching(j, request) ==
  ciPc = "fetching" /\ j \in DOMAIN fetches /\ fetches[j][request] = Pending

\* workouts.ts:209: getWorkoutDetails resolves.
DetailResolves(j) ==
  /\ Fetching(j, "detail")
  /\ \E detail \in Details(ciArgs.workoutIds[j]) :
       fetches' = [fetches EXCEPT ![j].detail = Settled(detail)]
  /\ UNCHANGED <<ciPc, ciArgs, workoutLaps, ciWarnings, ciResult>>
  /\ UNCHANGED notCi

\* workouts.ts:206-214: getWorkoutDetails rejects; nothing catches it, both
\* Promise.all reject and so does the call.
DetailRejects(j) ==
  /\ Fetching(j, "detail")
  /\ ciPc' = "rejected"
  /\ fetches' = [fetches EXCEPT ![j].detail = [state |-> "rejected"]]
  /\ UNCHANGED <<ciArgs, workoutLaps, ciWarnings, ciResult>>
  /\ UNCHANGED notCi

\* workouts.ts:210: downloadActivityFile resolves, with a buffer or with null.
FileResolves(j) ==
  /\ Fetching(j, "fitBuffer")
  /\ \E buffer \in {SomeBuffer, NoBuffer} :
       fetches' = [fetches EXCEPT ![j].fitBuffer = Settled(buffer)]
  /\ UNCHANGED <<ciPc, ciArgs, workoutLaps, ciWarnings, ciResult>>
  /\ UNCHANGED notCi

\* workouts.ts:210: downloadActivityFile rejects; .catch(() => null).
FileRejects(j) ==
  /\ Fetching(j, "fitBuffer")
  /\ fetches' = [fetches EXCEPT ![j].fitBuffer =
                   [state |-> "settled", value |-> NoBuffer, caught |-> TRUE]]
  /\ UNCHANGED <<ciPc, ciArgs, workoutLaps, ciWarnings, ciResult>>
  /\ UNCHANGED notCi

AllFetched ==
  \A j \in DOMAIN fetches :
    fetches[j].detail.state = "settled" /\ fetches[j].fitBuffer.state = "settled"

\* The indices below n, in order, whose workout has no buffer.
WithoutBuffer == SelectSeq([j \in 1..Len(fetches) |-> j],
                           LAMBDA j : fetches[j].fitBuffer.value = NoBuffer)

\* workouts.ts:218-232: every request has settled; the callbacks of
\* fetches.map run in order, each up to its await of parseLapsFromFit or,
\* without a buffer, to its return.
FetchesDone ==
  /\ ciPc = "fetching" /\ AllFetched
  /\ ciPc' = "parsing"
  /\ ciWarnings' = [k \in 1..Len(WithoutBuffer) |->
                      CiWarning(fetches[WithoutBuffer[k]].detail.value,
                                "no FIT file available")]
  /\ workoutLaps' = [j \in 1..Len(fetches) |->
                       IF fetches[j].fitBuffer.value = NoBuffer
                       THEN [pc |-> "done", detail |-> fetches[j].detail.value,
                             decoded |-> Outcome("none"), parsed |-> <<>>,
                             laps |-> filterLaps(<<>>, ciArgs)]
                       ELSE [pc |-> "parsing", detail |-> fetches[j].detail.value,
                             decoded |-> Outcome("none"), parsed |-> <<>>,
                             laps |-> <<>>]]
  /\ UNCHANGED <<ciArgs, fetches, ciResult>>
  /\ UNCHANGED notCi

\* workouts.ts:222-231: parseLapsFromFit has returned `laps`, the decoder
\* having ended with `outcome`.
Parsed(j, outcome, laps) ==
  /\ ciWarnings' = IF Len(laps) = 0
                   THEN Append(ciWarnings, CiWarning(workoutLaps[j].detail,
                                                     "FIT file contains no laps"))
                   ELSE ciWarnings
  /\ workoutLaps' = [workoutLaps EXCEPT ![j].pc = "done",
                                        ![j].decoded = outcome,
                                        ![j].parsed = laps,
                                        ![j].laps = filterLaps(laps, ciArgs)]
  /\ UNCHANGED <<ciPc, ciArgs, fetches, ciResult>>
  /\ UNCHANGED notCi

Parsing(j) == ciPc = "parsing" /\ j \in DOMAIN workoutLaps /\ workoutLaps[j].pc = "parsing"

\* workouts.ts:178-182: decodeFitBuffer rejects and parseLapsFromFit returns [].
ParseDecodeThrows(j) ==
  /\ Parsing(j)
  /\ Parsed(j, Outcome("rejected"), <<>>)

\* workouts.ts:178-198: decodeFitBuffer resolves.
ParseDecodeResolves(j) ==
  /\ Parsing(j)
  /\ \E messages \in LapMessages :
       Parsed(j, Decoded(messages), LapsOfMessages(messages))

\* workouts.ts:234-261: every callback has returned; the rows and summaries
\* are built and the call resolves.
CiReturn ==
  /\ ciPc = "parsing"
  /\ \A j \in DOMAIN workoutLaps : workoutLaps[j].pc = "done"
  /\ ciPc' = "resolved"
  /\ ciResult' = CiReturnValue(workoutLaps, ciWarnings)
  /\ UNCHANGED <<ciArgs, fetches, workoutLaps, ciWarnings>>
  /\ UNCHANGED notCi

CiNext ==
  \/ \E j \in 1..MaxRequested :
       \/ DetailResolves(j) \/ DetailRejects(j) \/ FileResolves(j) \/ FileRejects(j)
       \/ ParseDecodeThrows(j) \/ ParseDecodeResolves(j)
  \/ FetchesDone
  \/ CiReturn

(***************************************************************************)
(* computeAerobicDecoupling, power.ts:250-319.  The code computes in        *)
(* double precision; here a number is an exact fraction, NaN or an          *)
(* infinity, and the operations are those of JavaScript on such values.     *)
(* Power and heart rate samples are non-negative integers (FIT uint16 and   *)
(* uint8), so no negative zero arises.  Where the exact value lies halfway  *)
(* between two results of a scaled rounding, the double the code rounds     *)
(* may lie on either side: both results are possible.                       *)
(***************************************************************************)
\* longest stream drawn for computeAerobicDecoupling
MaxDecSamples == 4

\* The samples drawn: no power or 200 W; no heart rate, 140, 147 or 154 bpm.
DecPowers == {0, 200}
DecHeartRates == {0, 140, 147, 154}

RECURSIVE Gcd(_, _)
Gcd(a, b) == IF b = 0 THEN a ELSE Gcd(b, a % b)

\* The fraction n / d, d > 0, in lowest terms.
Fin(n, d) ==
  LET g == Gcd(IF n < 0 THEN -n ELSE n, d)
  IN  [kind |-> "finite", num |-> n \div g, den |-> d \div g]

NaN == [kind |-> "NaN", num |-> 0, den |-> 1]
Infinity(sign) == [kind |-> "Infinity", num |-> sign, den |-> 1]

SignOf(x) == IF x.num < 0 THEN -1 ELSE 1

\* a / b
JsDiv(a, b) ==
  IF a.kind = "NaN" \/ b.kind = "NaN" THEN NaN
  ELSE IF a.kind = "Infinity"
       THEN IF b.kind = "Infinity" THEN NaN ELSE Infinity(SignOf(a) * SignOf(b))
  ELSE IF b.kind = "Infinity" THEN Fin(0, 1)
  ELSE IF b.num = 0
       THEN IF a.num = 0 THEN NaN ELSE Infinity(SignOf(a))
  ELSE Fin(a.num * b.den * SignOf(b), a.den * b.num * SignOf(b))

\* a - b
JsSub(a, b) ==
  IF a.kind = "NaN" \/ b.kind = "NaN" THEN NaN
  ELSE IF a.kind = "Infinity"
       THEN IF b.kind = "Infinity" /\ SignOf(a) = SignOf(b) THEN NaN ELSE a
  ELSE IF b.kind = "Infinity" THEN Infinity(-SignOf(b))
  ELSE Fin(a.num * b.den - b.num * a.den, a.den * b.den)

\* a * k for an integer k > 0
JsTimes(a, k) == IF a.kind = "finite" THEN Fin(a.num * k, a.den) ELSE a

\* Math.abs(a)
JsAbs(a) ==
  IF a.kind = "NaN" THEN NaN
  ELSE IF a.kind = "Infinity" THEN Infinity(1)
  ELSE Fin(a.num * SignOf(a), a.den)

\* a < k for an integer k
JsLess(a, k) ==
  IF a.kind = "NaN" THEN FALSE
  ELSE IF a.kind = "Infinity" THEN SignOf(a) < 0
  ELSE a.num < k * a.den

\* Math.round(a)
JsRound(a) == IF a.kind = "finite" THEN Fin(MathRound(a.num, a.den), 1) ELSE a

\* What Math.round(a * scale) / scale may give: the multiple of 1/scale
\* nearest to a, and either neighbour when a is exactly halfway.
ScaledRoundings(a, scale) ==
  IF a.kind # "finite" THEN {a}
  ELSE LET n == a.num * scale
           up == MathRound(n, a.den)
       IN  IF (2 * n + a.den) % (2 * a.den) = 0
           THEN {Fin(up, scale), Fin(up - 1, scale)}
           ELSE {Fin(up, scale)}

RECURSIVE FilterZeros(_, _, _)
\* power.ts:255-262: the loop from 0-based index i; a sample the heart rate
\* stream does not have is 0.
FilterZeros(ps, hs, i) ==
  IF i >= Len(ps) THEN <<>>
  ELSE LET p == ps[i + 1]
           h == IF i + 1 <= Len(hs) THEN hs[i + 1] ELSE 0
       IN  IF p # 0 \/ h # 0
           THEN <<[power |-> p, hr |-> h]>> \o FilterZeros(ps, hs, i + 1)
           ELSE FilterZeros(ps, hs, i + 1)

NoValidRecords == "No valid records after filtering zeros"
NoPowerData == "No power data found in workout records"
NoHeartRateData == "No heart rate data found in workout records"

\* The checks without the one for heart rate.
DecouplingErrorWithoutHR(filtered) ==
  IF Len(filtered) = 0 THEN NoValidRecords
  ELSE IF ~\E i \in DOMAIN filtered : filtered[i].power > 0 THEN NoPowerData
  ELSE "none"

\* power.ts:264-276: the error thrown for the filtered records, if any.
DecouplingError(filtered) ==
  IF Len(filtered) = 0 THEN NoValidRecords
  ELSE IF ~\E i \in DOMAIN filtered : filtered[i].power > 0 THEN NoPowerData
  ELSE IF ~\E i \in DOMAIN filtered : filtered[i].hr > 0 THEN NoHeartRateData
  ELSE "none"

\* power.ts:282: avg of the given field over the records
AvgOf(records, field) ==
  JsDiv(Fin(SumOf([i \in 1..Len(records) |-> records[i][field]]), 1),
        Fin(Len(records), 1))

\* Thresholds that count 5 as minimal and 10 as moderate.
InterpretationInclusive(abs) ==
  IF abs.kind = "finite" /\ abs.num <= 5 * abs.den
  THEN "Good aerobic fitness - minimal cardiac drift"
  ELSE IF abs.kind = "finite" /\ abs.num <= 10 * abs.den
  THEN "Moderate decoupling - aerobic endurance developing"
  ELSE "High decoupling - aerobic base needs work"

\* power.ts:296-303 (the dash of the source's texts is written - here)
Interpretation(abs) ==
  IF JsLess(abs, 5) THEN "Good aerobic fitness - minimal cardiac drift"
  ELSE IF JsLess(abs, 10) THEN "Moderate decoupling - aerobic endurance developing"
  ELSE "High decoupling - aerobic base needs work"

\* A split that gives the odd sample to the first half.
MidRoundedUp(n) == (n + 1) \div 2

\* power.ts:278: Math.floor(filtered.length / 2)
Mid(n) == n \div 2

\* power.ts:250-319: the outcomes the call may have: the error thrown, or
\* the results returned.
computeAerobicDecoupling(ps, hs) ==
  LET filtered == FilterZeros(ps, hs, 0)
      error == DecouplingError(filtered)
      mid == Mid(Len(filtered))
      firstHalfRecords == SubSeq(filtered, 1, mid)
      secondHalfRecords == SubSeq(filtered, mid + 1, Len(filtered))
      firstAvgPower == AvgOf(firstHalfRecords, "power")
      firstAvgHR == AvgOf(firstHalfRecords, "hr")
      secondAvgPower == AvgOf(secondHalfRecords, "power")
      secondAvgHR == AvgOf(secondHalfRecords, "hr")
      ratio1 == JsDiv(firstAvgHR, firstAvgPower)
      ratio2 == JsDiv(secondAvgHR, secondAvgPower)
      decouplingPercent == JsTimes(JsDiv(JsSub(ratio2, ratio1), ratio1), 100)
  IN  IF error # "none" THEN {[error |-> error]}
      ELSE {[firstHalf |-> [avgPower |-> JsRound(firstAvgPower),
                            avgHR |-> JsRound(firstAvgHR),
                            hrPowerRatio |-> r1],
             secondHalf |-> [avgPower |-> JsRound(secondAvgPower),
                             avgHR |-> JsRound(secondAvgHR),
                             hrPowerRatio |-> r2],
             decouplingPercent |-> roundedDecoupling,
             interpretation |-> Interpretation(JsAbs(roundedDecoupling))] :
              r1 \in ScaledRoundings(ratio1, 10000),
              r2 \in ScaledRoundings(ratio2, 10000),
              roundedDecoupling \in ScaledRoundings(decouplingPercent, 100)}

NotCalled == [called |-> FALSE]

DecIdle ==
  /\ decPower = <<>>
  /\ decHr = <<>>
  /\ decPc = "idle"
  /\ decResult = NotCalled

\* The two streams are read from the same records (power.ts:339-346) and
\* have the same length.
DecInit ==
  /\ decPower \in SeqsUpTo(DecPowers, MaxDecSamples)
  /\ decHr \in {hs \in SeqsUpTo(DecHeartRates, MaxDecSamples) : Len(hs) = Len(decPower)}
  /\ decPc = "call"
  /\ decResult = NotCalled

CallComputeAerobicDecoupling ==
  /\ decPc = "call"
  /\ decPc' = "done"
  /\ decResult' \in computeAerobicDecoupling(decPower, decHr)
  /\ UNCHANGED <<decPower, decHr>>
  /\ UNCHANGED notDec

(***************************************************************************)
(* filterLaps on its own, workouts.ts:128-147: the laps and the arguments   *)
(* are drawn, the function is applied.                                      *)
(***************************************************************************)
\* most laps of one workout
MaxLaps == 3

\* What a lap may hold besides its number: averagePower and duration are
\* optional.
LapContents ==
  {NoFields,
   [averagePower |-> 2],
   [duration |-> 10],
   [averagePower |-> 0, duration |-> 7],
   [averagePower |-> 1, duration |-> 8],
   [averagePower |-> 2, duration |-> 12],
   [averagePower |-> 3, duration |-> 13]}

\* workouts.ts:189-190: the laps parseLapsFromFit returns are numbered from 1.
NumberedLaps(contents) ==
  [i \in 1..Len(contents) |-> [lapNumber |-> i] @@ contents[i]]

\* workouts.ts:90-98: minPower and targetDuration are optional numbers,
\* durationTolerance is a number, 2 by default.
FilterArgs ==
  LET powers == {[workoutIds |-> <<1>>]}
                  \cup {[workoutIds |-> <<1>>, minPower |-> m] : m \in {-1, 0, 2}}
      targets == {[durationTolerance |-> DefaultDurationTolerance]}
                   \cup {[durationTolerance |-> t, targetDuration |-> 10] :
                           t \in {DefaultDurationTolerance, 3}}
  IN  {a @@ b : a \in powers, b \in targets}

FilterIdle ==
  /\ flLaps = <<>>
  /\ flArgs = [workoutIds |-> <<>>, durationTolerance |-> DefaultDurationTolerance]
  /\ flPc = "idle"
  /\ flResult = <<>>

FilterInit ==
  /\ flLaps \in {NumberedLaps(c) : c \in SeqsUpTo(LapContents, MaxLaps)}
  /\ flArgs \in FilterArgs
  /\ flPc = "call"
  /\ flResult = <<>>

CallFilterLaps ==
  /\ flPc = "call"
  /\ flPc' = "done"
  /\ flResult' = filterLaps(flLaps, flArgs)
  /\ UNCHANGED <<flLaps, flArgs>>
  /\ UNCHANGED notFilter

(***************************************************************************)
(* getBestPower, power.ts:43-99: one step per awaited promise.             *)
(***************************************************************************)
\* power.ts:6-11: a workout id and the durations, in any order and with
\* repetitions.
GbArgs ==
  {[workoutId |-> id, durations |-> d] :
     id \in {1, 2}, d \in {<<1>>, <<2, 1>>, <<3, 1, 2>>, <<2, 2, 1>>, <<30, 5, 15>>}}

GbError(message) == [error |-> message]

GbIdle ==
  /\ gbPc = "idle"
  /\ gbArgs = [workoutId |-> 0, durations |-> <<>>]
  /\ gbWorkout = NullResult
  /\ gbResult = NullResult
  /\ gbOutcome = Outcome("none")

GbInit ==
  /\ gbPc = "getWorkout"
  /\ gbArgs \in GbArgs
  /\ gbWorkout = NullResult
  /\ gbResult = NullResult
  /\ gbOutcome = Outcome("none")

\* power.ts:70: [...args.durations].sort((a, b) => a - b)
GbSortedDurations(durations) == SortAscending(durations)

\* The result of one duration without the null of a duration that is too long.
GbResultWithoutNull(ps, duration) ==
  LET result == computeBestPower(ps, duration)
  IN  IF result = NoBestPower
      THEN [durationSeconds |-> duration, bestPowerWatts |-> Just(0),
            startOffsetSeconds |-> 0]
      ELSE [durationSeconds |-> duration, bestPowerWatts |-> Just(result.bestPower),
            startOffsetSeconds |-> result.startIndex]

\* power.ts:72-86: the result of one duration.
GbResultOf(ps, duration) ==
  LET result == computeBestPower(ps, duration)
  IN  IF result = NoBestPower
      THEN [durationSeconds |-> duration, bestPowerWatts |-> Nothing,
            error |-> "Duration exceeds recording length"]
      ELSE [durationSeconds |-> duration, bestPowerWatts |-> Just(result.bestPower),
            startOffsetSeconds |-> result.startIndex]

\* power.ts:70-98: the object that is printed.
GbReturnValue(args, workout, ps) ==
  LET sortedDurations == GbSortedDurations(args.durations)
  IN  [workoutId |-> args.workoutId,
       workoutDate |-> workout.workoutDay,
       totalRecords |-> Len(ps),
       results |-> [i \in 1..Len(sortedDurations) |-> GbResultOf(ps, sortedDurations[i])]]
        @@ Optional("workoutTitle", workout, "title")

GbRejects(outcome, message) ==
  /\ gbPc' = "rejected"
  /\ gbResult' = GbError(message)
  /\ gbOutcome' = outcome
  /\ UNCHANGED <<gbArgs, gbWorkout>>
  /\ UNCHANGED notGb

\* power.ts:47: getWorkout resolves.
GbGetWorkoutResolves ==
  /\ gbPc = "getWorkout"
  /\ gbPc' = "download"
  /\ gbWorkout' \in Details(gbArgs.workoutId)
  /\ UNCHANGED <<gbArgs, gbResult, gbOutcome>>
  /\ UNCHANGED notGb

\* power.ts:47: getWorkout rejects.
GbGetWorkoutRejects ==
  /\ gbPc = "getWorkout"
  /\ GbRejects(Outcome("getWorkout rejected"), "getWorkout failed")

\* power.ts:48-54: downloadActivityFile resolves with a buffer.
GbDownloadResolves ==
  /\ gbPc = "download"
  /\ gbPc' = "decode"
  /\ gbOutcome' = Outcome("buffer")
  /\ UNCHANGED <<gbArgs, gbWorkout, gbResult>>
  /\ UNCHANGED notGb

\* power.ts:48-52: downloadActivityFile resolves with null.
GbDownloadNoFile ==
  /\ gbPc = "download"
  /\ GbRejects(Outcome("no file"), "No activity file available for workout")

\* power.ts:48: downloadActivityFile rejects.
GbDownloadRejects ==
  /\ gbPc = "download"
  /\ GbRejects(Outcome("download rejected"), "downloadActivityFile failed")

\* power.ts:54: decodeFitBuffer rejects.
GbDecodeThrows ==
  /\ gbPc = "decode"
  /\ GbRejects(Outcome("decode rejected"), "decodeFitBuffer failed")

\* power.ts:54-59: decodeFitBuffer resolves without records.
GbNoRecords ==
  /\ gbPc = "decode"
  /\ \E messages \in FitMessages :
       /\ ~HasRecords(messages)
       /\ GbRejects(Decoded(messages), "No record data found in FIT file")

\* power.ts:54-68: the records hold no positive power.
GbNoPower ==
  /\ gbPc = "decode"
  /\ \E messages \in FitMessages :
       /\ HasRecords(messages)
       /\ ~SomePositive(PowerStreamOf(messages.recordMesgs))
       /\ GbRejects(Decoded(messages), "No power data found in workout records")

\* power.ts:54-98: the records hold power and the results are returned.
GbReturn ==
  /\ gbPc = "decode"
  /\ \E messages \in FitMessages :
       /\ Analysable(messages)
       /\ gbResult' = GbReturnValue(gbArgs, gbWorkout, PowerStreamOf(messages.recordMesgs))
       /\ gbOutcome' = Decoded(messages)
  /\ gbPc' = "resolved"
  /\ UNCHANGED <<gbArgs, gbWorkout>>
  /\ UNCHANGED notGb

GbNext ==
  \/ GbGetWorkoutResolves \/ GbGetWorkoutRejects
  \/ GbDownloadResolves \/ GbDownloadNoFile \/ GbDownloadRejects
  \/ GbDecodeThrows \/ GbNoRecords \/ GbNoPower \/ GbReturn

(***************************************************************************)
(* WorkoutsApi.getWorkouts, api/workouts.ts:20-41, with chunkDateRange,    *)
(* api/workouts.ts:134-163.  A date string 'YYYY-MM-DD' is the number of   *)
(* its day; a Date is its time value, counted in hours.  new Date(string)  *)
(* is UTC midnight of the day and toISOString gives the UTC day of the     *)
(* time value, while getDate and setDate work on the wall clock of the     *)
(* process's time zone.  Of the zone only a change of its offset matters:  *)
(* it is `shift` hours larger from noon UTC of day `from` on.              *)
(***************************************************************************)
\* api/workouts.ts:9
MAX_DATE_RANGE_DAYS == 90

\* most days from startDate to endDate
MaxRangeDays == 181

NoShift == [from |-> 0, shift |-> 0]

\* Zones without a change of offset, with the clock put forward (shift 1)
\* and with the clock put back (shift -1), in the first or the second chunk.
Zones == {NoShift} \cup {[from |-> d, shift |-> h] : d \in {40, 120}, h \in {-1, 1}}

\* The offset of the zone at time value t, less its offset at the start.
OffsetAt(zone, t) ==
  IF t >= zone.from * 24 + 12 THEN zone.shift ELSE 0

\* api/workouts.ts:140-141: new Date('YYYY-MM-DD')
NewDate(day) == day * 24

\* api/workouts.ts:165-167: date.toISOString().split('T')[0]
formatDate(t) == t \div 24

\* api/workouts.ts:147, 158: date.setDate(date.getDate() + k): the same wall
\* clock time k days later.
AddDays(zone, t, k) ==
  LET wall == t + OffsetAt(zone, t) + k * 24
  IN  IF OffsetAt(zone, wall - zone.shift) = zone.shift THEN wall - zone.shift
      ELSE wall

\* api/workouts.ts:145: currentStart < end
Before(currentStart, end) == currentStart < end

RECURSIVE ChunksFrom(_, _, _, _)
\* api/workouts.ts:145-159: the loop, from currentStart on.
ChunksFrom(currentStart, end, maxDays, zone) ==
  IF ~Before(currentStart, end) THEN <<>>
  ELSE LET added == AddDays(zone, currentStart, maxDays - 1)
           currentEnd == IF added > end THEN end ELSE added
       IN  <<[start |-> formatDate(currentStart), end |-> formatDate(currentEnd)]>>
             \o ChunksFrom(AddDays(zone, currentEnd, 1), end, maxDays, zone)

\* api/workouts.ts:134-163
chunkDateRange(startDate, endDate, maxDays, zone) ==
  ChunksFrom(NewDate(startDate), NewDate(endDate), maxDays, zone)

\* What the service answers to a request for the days from startDate to
\* endDate: the athlete has one workout a day, every seventh deleted.
ResponseFor(startDate, endDate) ==
  [k \in 1..(endDate - startDate + 1) |->
     [workoutId |-> startDate + k - 1, workoutDay |-> startDate + k - 1,
      isDeleted |-> (startDate + k - 1) % 7 = 0]]

\* api/workouts.ts:72-106, the fields used here.
mapWorkoutResponse(w) == [workoutId |-> w.workoutId, workoutDay |-> w.workoutDay]

\* api/workouts.ts:43-56
fetchWorkoutsForRange(startDate, endDate, options) ==
  LET response == ResponseFor(startDate, endDate)
      kept == SelectSeq(response, LAMBDA w : options.includeDeleted \/ ~w.isDeleted)
  IN  [k \in 1..Len(kept) |-> mapWorkoutResponse(kept[k])]

\* The calls: a first day, up to MaxRangeDays days more, deleted workouts
\* included or not.
GwArgs ==
  {[startDate |-> 10, endDate |-> 10 + n, options |-> [includeDeleted |-> b]] :
     n \in 0..MaxRangeDays, b \in BOOLEAN}

GwIdle ==
  /\ gwPc = "idle"
  /\ gwArgs = [startDate |-> 0, endDate |-> 0, options |-> [includeDeleted |-> FALSE]]
  /\ gwZone = NoShift
  /\ dateRanges = <<>>
  /\ gwRequests = <<>>
  /\ gwAllWorkouts = <<>>

\* The call has been made and awaits getAthleteId (api/workouts.ts:25).
GwInit ==
  /\ gwPc = "getAthleteId"
  /\ gwArgs \in GwArgs
  /\ gwZone \in Zones
  /\ dateRanges = <<>>
  /\ gwRequests = <<>>
  /\ gwAllWorkouts = <<>>

\* api/workouts.ts:25-30: getAthleteId resolves, the ranges are computed and
\* the loop starts; without a range the call returns (api/workouts.ts:40).
GwAthleteIdResolves ==
  /\ gwPc = "getAthleteId"
  /\ dateRanges' = chunkDateRange(gwArgs.startDate, gwArgs.endDate,
                                  MAX_DATE_RANGE_DAYS, gwZone)
  /\ gwPc' = IF dateRanges' = <<>> THEN "resolved" ELSE "fetching"
  /\ UNCHANGED <<gwArgs, gwZone, gwRequests, gwAllWorkouts>>
  /\ UNCHANGED notGw

\* api/workouts.ts:25: getAthleteId rejects.
GwAthleteIdRejects ==
  /\ gwPc = "getAthleteId"
  /\ gwPc' = "rejected"
  /\ UNCHANGED <<gwArgs, gwZone, dateRanges, gwRequests, gwAllWorkouts>>
  /\ UNCHANGED notGw

\* api/workouts.ts:31-38: the request of the next range resolves and its
\* workouts are appended; after the last range the call returns.
GwRequestResolves ==
  /\ gwPc = "fetching"
  /\ LET range == dateRanges[Len(gwRequests) + 1]
     IN  /\ gwRequests' = Append(gwRequests, range)
         /\ gwAllWorkouts' = gwAllWorkouts
              \o fetchWorkoutsForRange(range.start, range.end, gwArgs.options)
  /\ gwPc' = IF Len(gwRequests') = Len(dateRanges) THEN "resolved" ELSE "fetching"
  /\ UNCHANGED <<gwArgs, gwZone, dateRanges>>
  /\ UNCHANGED notGw

\* api/workouts.ts:31-36: the request of the next range rejects.
GwRequestRejects ==
  /\ gwPc = "fetching"
  /\ gwRequests' = Append(gwRequests, dateRanges[Len(gwRequests) + 1])
  /\ gwPc' = "rejected"
  /\ UNCHANGED <<gwArgs, gwZone, dateRanges, gwAllWorkouts>>
  /\ UNCHANGED notGw

GwNext ==
  \/ GwAthleteIdResolves \/ GwAthleteIdRejects
  \/ GwRequestResolves \/ GwRequestRejects

(***************************************************************************)
(* FilesApi.downloadActivityFile, api/files.ts:26-53: one step per awaited  *)
(* promise.  The cache is seen through its interface: get(id) resolves with *)
(* the stored bytes or null, set(id, bytes) stores the bytes and evicts.    *)
(***************************************************************************)
\* most calls of downloadActivityFile in one behaviour
MaxDownloadCalls == 2

DfIds == {1, 2}

\* The bytes of the activity file of workout id, gzipped or not.
Gzipped(id) == [data |-> id, gz |-> TRUE]
Plain(id) == [data |-> id, gz |-> FALSE]

\* files.ts:37: details.workoutDeviceFileInfos?.[0], undefined without one.
NoFileInfo == [none |-> TRUE]
FileInfos == {NoFileInfo,
              [fileId |-> "f", fileName |-> "a.fit"],
              [fileId |-> "f", fileName |-> "a.fit.gz"]}

\* files.ts:45: fileInfo.fileName.endsWith('.gz')
EndsWithGz(fileName) == fileName = "a.fit.gz"

NotReturned == [pending |-> TRUE]
Returned(value) == [returned |-> value]
Threw == [threw |-> TRUE]

DfEvent(op) == [op |-> op]
DfGot(value) == [op |-> "cache.get", value |-> value]
DfSet(id, bytes) == [op |-> "cache.set", id |-> id, bytes |-> bytes]

NoPreviousCall == [id |-> 0, result |-> NotReturned]

DfIdle ==
  /\ dfHasCache = FALSE
  /\ dfStore = [i \in DfIds |-> Nothing]
  /\ dfPc = "idle"
  /\ dfId = 0
  /\ dfFileInfo = NoFileInfo
  /\ dfBytes = Nothing
  /\ dfResult = NotReturned
  /\ dfLog = <<>>
  /\ dfPrev = NoPreviousCall
  /\ dfCalls = 0

\* files.ts:20-24 and cache.ts:30-52: the cache is optional; a cache finds
\* the files that earlier runs left in its directory.
DfInit ==
  /\ dfHasCache \in BOOLEAN
  /\ dfStore \in [DfIds -> {Nothing}] \cup
       (IF dfHasCache THEN {[i \in DfIds |-> IF i \in held THEN Just(Plain(i)) ELSE Nothing] :
                             held \in SUBSET DfIds}
        ELSE {})
  /\ dfPc = "ready"
  /\ dfId = 0
  /\ dfFileInfo = NoFileInfo
  /\ dfBytes = Nothing
  /\ dfResult = NotReturned
  /\ dfLog = <<>>
  /\ dfPrev = NoPreviousCall
  /\ dfCalls = 0

\* files.ts:26-29: the call runs up to its first await.
DfCall(id) ==
  /\ dfPc \in {"ready", "resolved", "rejected"}
  /\ dfCalls < MaxDownloadCalls
  /\ dfCalls' = dfCalls + 1
  /\ dfPrev' = IF dfPc = "ready" THEN NoPreviousCall ELSE [id |-> dfId, result |-> dfResult]
  /\ dfId' = id
  /\ dfPc' = IF dfHasCache THEN "cache.get" ELSE "getAthleteId"
  /\ dfFileInfo' = NoFileInfo
  /\ dfBytes' = Nothing
  /\ dfResult' = NotReturned
  /\ dfLog' = <<>>
  /\ UNCHANGED <<dfHasCache, dfStore>>
  /\ UNCHANGED notDf

\* The call rejects with the error of the promise it awaited.
DfRejects(event) ==
  /\ dfPc' = "rejected"
  /\ dfResult' = Threw
  /\ dfLog' = Append(dfLog, event)
  /\ UNCHANGED <<dfHasCache, dfStore, dfId, dfFileInfo, dfBytes, dfPrev, dfCalls>>
  /\ UNCHANGED notDf

\* files.ts:29-30 and cache.ts:54-65: get resolves with the stored bytes,
\* which are returned.
DfCacheHit ==
  /\ dfPc = "cache.get" /\ dfStore[dfId] # Nothing
  /\ dfPc' = "resolved"
  /\ dfResult' = Returned(dfStore[dfId][1])
  /\ dfLog' = Append(dfLog, DfGot(dfStore[dfId]))
  /\ UNCHANGED <<dfHasCache, dfStore, dfId, dfFileInfo, dfBytes, dfPrev, dfCalls>>
  /\ UNCHANGED notDf

\* files.ts:29-33 and cache.ts:56-57, 66-70: get resolves with null, for
\* there is no entry or its file cannot be read and the entry is removed.
DfCacheMiss ==
  /\ dfPc = "cache.get"
  /\ dfPc' = "getAthleteId"
  /\ dfStore' = [dfStore EXCEPT ![dfId] = Nothing]
  /\ dfLog' = Append(dfLog, DfGot(Nothing))
  /\ UNCHANGED <<dfHasCache, dfId, dfFileInfo, dfBytes, dfResult, dfPrev, dfCalls>>
  /\ UNCHANGED notDf

\* files.ts:29 and cache.ts:32, 55: get rejects when the cache directory
\* cannot be made.
DfCacheGetRejects ==
  /\ dfPc = "cache.get"
  /\ DfRejects(DfEvent("cache.get"))

\* files.ts:33-35: getAthleteId resolves and the details are requested.
DfAthleteIdResolves ==
  /\ dfPc = "getAthleteId"
  /\ dfPc' = "details"
  /\ dfLog' = Append(dfLog, DfEvent("getAthleteId"))
  /\ UNCHANGED <<dfHasCache, dfStore, dfId, dfFileInfo, dfBytes, dfResult, dfPrev, dfCalls>>
  /\ UNCHANGED notDf

\* files.ts:33: getAthleteId rejects.
DfAthleteIdRejects ==
  /\ dfPc = "getAthleteId"
  /\ DfRejects(DfEvent("getAthleteId"))

\* files.ts:35-43: the details request resolves; without a device file the
\* call returns null, else the raw file is requested.
DfDetailsResolves ==
  /\ dfPc = "details"
  /\ \E fileInfo \in FileInfos :
       /\ dfFileInfo' = fileInfo
       /\ dfPc' = IF fileInfo = NoFileInfo THEN "resolved" ELSE "raw"
       /\ dfResult' = IF fileInfo = NoFileInfo THEN Returned(NullResult) ELSE dfResult
  /\ dfLog' = Append(dfLog, DfEvent("request"))
  /\ UNCHANGED <<dfHasCache, dfStore, dfId, dfBytes, dfPrev, dfCalls>>
  /\ UNCHANGED notDf

\* files.ts:35: the details request rejects.
DfDetailsRejects ==
  /\ dfPc = "details"
  /\ DfRejects(DfEvent("request"))

\* files.ts:43-52: the raw request resolves with bytes that are what the
\* file name says; they are gunzipped under a .gz name; with a cache the call
\* goes on to cache.set, without one it returns.
DfRawResolves ==
  /\ dfPc = "raw"
  /\ LET buffer == IF EndsWithGz(dfFileInfo.fileName) THEN Gzipped(dfId) ELSE Plain(dfId)
         result == IF EndsWithGz(dfFileInfo.fileName) THEN Plain(buffer.data) ELSE buffer
     IN  /\ dfBytes' = Just(result)
         /\ dfPc' = IF dfHasCache THEN "cache.set" ELSE "resolved"
         /\ dfResult' = IF dfHasCache THEN dfResult ELSE Returned(result)
  /\ dfLog' = Append(dfLog, DfEvent("requestRaw"))
  /\ UNCHANGED <<dfHasCache, dfStore, dfId, dfFileInfo, dfPrev, dfCalls>>
  /\ UNCHANGED notDf

\* files.ts:45: the bytes under a .gz name are not gzip data and gunzipSync
\* throws.
DfGunzipThrows ==
  /\ dfPc = "raw"
  /\ EndsWithGz(dfFileInfo.fileName)
  /\ DfRejects(DfEvent("requestRaw"))

\* files.ts:43: the raw request rejects.
DfRawRejects ==
  /\ dfPc = "raw"
  /\ DfRejects(DfEvent("requestRaw"))

\* The bytes returned without a call of cache.set.
DfCacheSetSkipped ==
  /\ dfPc = "cache.set"
  /\ dfPc' = "resolved"
  /\ dfResult' = Returned(dfBytes[1])
  /\ UNCHANGED <<dfHasCache, dfStore, dfId, dfFileInfo, dfBytes, dfLog, dfPrev, dfCalls>>
  /\ UNCHANGED notDf

\* files.ts:48-52 and cache.ts:73-82, 135-156: set writes the bytes and
\* evicts down to the budget, which may remove any entries, the new one
\* included; then the bytes are returned.
DfCacheSetResolves ==
  /\ dfPc = "cache.set"
  /\ dfPc' = "resolved"
  /\ \E evicted \in SUBSET DfIds :
       dfStore' = [i \in DfIds |-> IF i \in evicted THEN Nothing
                                   ELSE IF i = dfId THEN dfBytes ELSE dfStore[i]]
  /\ dfResult' = Returned(dfBytes[1])
  /\ dfLog' = Append(dfLog, DfSet(dfId, dfBytes[1]))
  /\ UNCHANGED <<dfHasCache, dfId, dfFileInfo, dfBytes, dfPrev, dfCalls>>
  /\ UNCHANGED notDf

\* files.ts:49 and cache.ts:74-77: set rejects when the file cannot be
\* written.
DfCacheSetRejects ==
  /\ dfPc = "cache.set"
  /\ DfRejects(DfSet(dfId, dfBytes[1]))

DfNext ==
  \/ \E id \in DfIds : DfCall(id)
  \/ DfCacheHit \/ DfCacheMiss \/ DfCacheGetRejects
  \/ DfAthleteIdResolves \/ DfAthleteIdRejects
  \/ DfDetailsResolves \/ DfDetailsRejects
  \/ DfRawResolves \/ DfGunzipThrows \/ DfRawRejects
  \/ DfCacheSetResolves \/ DfCacheSetRejects

(***************************************************************************)
(* The specifications.                                                     *)
(***************************************************************************)
InitSteps(p) == InitReaddir(p) \/ InitStat(p) \/ InitStatRet(p)
SetSteps(p) == SetWriteFile(p) \/ SetWriteRet(p) \/ EvictUnlink(p) \/ EvictRet(p)
GetSteps(p) == GetBody(p) \/ GetReadFile(p) \/ GetReadRet(p) \/ GetUtimes(p) \/ GetReadErr(p)
DeleteSteps(p) == DeleteBody(p) \/ DeleteUnlink(p) \/ DeleteRet(p)
ClearSteps(p) == ClearBody(p) \/ ClearUnlink(p) \/ ClearRet(p)

AllOps == {"get", "set", "delete", "clear", "stats"}

\* One call at a time, every method, and the outside removal of a file.
CacheNext ==
  \/ StartCall(1, AllOps, {1, 2}, MaxCalls)
  \/ InitSteps(1) \/ SetSteps(1) \/ GetSteps(1) \/ DeleteSteps(1)
  \/ StatsBody(1) \/ ClearSteps(1)
  \/ ExternalUnlink

CacheSpecInit == CacheInit({1, 2}) /\ PowerIdle /\ PdcIdle /\ CiIdle /\ DecIdle /\ FilterIdle /\ GbIdle /\ DfIdle /\ GwIdle

SpecCache == CacheSpecInit /\ [][CacheNext]_vars

\* One call at a time, get and set only.  No file is removed from outside
\* here, so readFile of an indexed id cannot fail and the catch block of get
\* (GetReadErr) has no step to take.
LruNext ==
  \/ StartCall(1, {"get", "set"}, Ids, MaxLruCalls)
  \/ InitSteps(1) \/ SetSteps(1)
  \/ GetBody(1) \/ GetReadFile(1) \/ GetReadRet(1) \/ GetUtimes(1)

LruInit == CacheInit({1}) /\ PowerIdle /\ PdcIdle /\ CiIdle /\ DecIdle /\ FilterIdle /\ GbIdle /\ DfIdle /\ GwIdle

SpecCacheLru == LruInit /\ [][LruNext]_vars

\* number of calls issued in one behaviour of the restart specification
MaxRestartCalls == 3

\* One call at a time, get and set, on a directory that is empty at first,
\* and one restart between two calls.
RestartNext ==
  \/ StartCall(1, {"get", "set"}, {1, 2}, MaxRestartCalls)
  \/ InitSteps(1) \/ SetSteps(1)
  \/ GetBody(1) \/ GetReadFile(1) \/ GetReadRet(1) \/ GetUtimes(1)
  \/ Restart

RestartInit == CacheInit({}) /\ PowerIdle /\ PdcIdle /\ CiIdle /\ DecIdle /\ FilterIdle /\ GbIdle /\ DfIdle /\ GwIdle

SpecCacheRestart == RestartInit /\ [][RestartNext]_vars

\* Calls in flight together: get, set, delete and stats.
ConcurrentNext ==
  \E p \in Slots :
    \/ StartCall(p, {"get", "set", "delete", "stats"}, {1, 2}, MaxConcurrentCalls)
    \/ InitSteps(p) \/ SetSteps(p) \/ GetSteps(p) \/ DeleteSteps(p) \/ StatsBody(p)

ConcurrentInit == CacheInit({1, 2}) /\ PowerIdle /\ PdcIdle /\ CiIdle /\ DecIdle /\ FilterIdle /\ GbIdle /\ DfIdle /\ GwIdle

SpecCacheConcurrent == ConcurrentInit /\ [][ConcurrentNext]_vars

\* Calls in flight together, all of them set.
ConcurrentSetsNext ==
  \E p \in Slots :
    \/ StartCall(p, {"set"}, {1, 2}, MaxConcurrentCalls)
    \/ InitSteps(p) \/ SetSteps(p)

ConcurrentSetsInit == CacheInit({1, 2}) /\ PowerIdle /\ PdcIdle /\ CiIdle /\ DecIdle /\ FilterIdle /\ GbIdle /\ DfIdle /\ GwIdle

SpecConcurrentSets == ConcurrentSetsInit /\ [][ConcurrentSetsNext]_vars

BestPowerInit == PowerInit /\ CacheIdle /\ PdcIdle /\ CiIdle /\ DecIdle /\ FilterIdle /\ GbIdle /\ DfIdle /\ GwIdle

SpecBestPower == BestPowerInit /\ [][CallComputeBestPower]_vars

\* One call of buildPowerDurationCurve.
PowerCurveInit == PdcInit /\ PowerIdle /\ CacheIdle /\ CiIdle /\ DecIdle /\ FilterIdle /\ GbIdle /\ DfIdle /\ GwIdle

SpecPowerCurve == PowerCurveInit /\ [][PdcNext]_vars

\* One call of compareIntervals.
CompareIntervalsInit == CiInit /\ PowerIdle /\ CacheIdle /\ PdcIdle /\ DecIdle /\ FilterIdle /\ GbIdle /\ DfIdle /\ GwIdle

SpecCompareIntervals == CompareIntervalsInit /\ [][CiNext]_vars

\* One call of computeAerobicDecoupling.
DecouplingInit == DecInit /\ PowerIdle /\ CacheIdle /\ PdcIdle /\ CiIdle /\ FilterIdle /\ GbIdle /\ DfIdle /\ GwIdle

SpecDecoupling == DecouplingInit /\ [][CallComputeAerobicDecoupling]_vars

\* One call of filterLaps.
FilterLapsInit ==
  FilterInit /\ PowerIdle /\ CacheIdle /\ PdcIdle /\ CiIdle /\ DecIdle /\ GbIdle /\ DfIdle /\ GwIdle

SpecFilterLaps == FilterLapsInit /\ [][CallFilterLaps]_vars

\* One call of either power tool: buildPowerDurationCurve or getBestPower.
PowerToolsInit ==
  \/ PowerCurveInit
  \/ GbInit /\ PowerIdle /\ CacheIdle /\ PdcIdle /\ CiIdle /\ DecIdle /\ FilterIdle /\ DfIdle /\ GwIdle

PowerToolsNext == PdcNext \/ GbNext

SpecPowerTools == PowerToolsInit /\ [][PowerToolsNext]_vars

\* Calls of downloadActivityFile, one after the other.
DownloadInit ==
  DfInit /\ PowerIdle /\ CacheIdle /\ PdcIdle /\ CiIdle /\ DecIdle /\ FilterIdle /\ GbIdle /\ GwIdle

SpecDownload == DownloadInit /\ [][DfNext]_vars

\* One call of getWorkouts.
GetWorkoutsInit ==
  GwInit /\ PowerIdle /\ CacheIdle /\ PdcIdle /\ CiIdle /\ DecIdle /\ FilterIdle /\ GbIdle /\ DfIdle

SpecGetWorkouts == GetWorkoutsInit /\ [][GwNext]_vars

(***************************************************************************)
(* C7.  Calls issued one at a time and nothing else touching the            *)
(* directory: whenever no call is in flight, the index holds exactly the    *)
(* ids of the files in the directory, once each, every entry's size is the  *)
(* length of its file, and stats reports the number of files and the sum    *)
(* of their lengths.                                                        *)
(***************************************************************************)
FilesOnDisk == {id \in Ids : disk[id].exists}

RECURSIVE DiskBytes(_)
DiskBytes(ids) ==
  IF ids = {} THEN 0
  ELSE LET id == CHOOSE x \in ids : TRUE
       IN  Len(disk[id].data) + DiskBytes(ids \ {id})

C7_IndexMatchesDirectory ==
  (initialized /\ InFlight = {} /\ ~ghost.tampered) =>
    /\ IndexIds(index) = FilesOnDisk
    /\ Len(index) = Cardinality(FilesOnDisk)
    /\ \A i \in 1..Len(index) : index[i].size = Len(disk[index[i].id].data)
    /\ ghost.last.op = "stats" =>
         /\ ghost.last.result.entries = Cardinality(FilesOnDisk)
         /\ ghost.last.result.totalBytes = DiskBytes(FilesOnDisk)

\* stats after a set, next to a file that the start-up scan indexed.
C7_Witness ==
  /\ InFlight = {} /\ ~ghost.tampered
  /\ ghost.last.op = "stats"
  /\ ghost.last.result = [entries |-> 2, totalBytes |-> 2, maxBytes |-> maxBytes]
  /\ disk[1].exists /\ disk[1].data = <<1>> /\ disk[1].mtime > 0
  /\ disk[2].exists /\ disk[2].mtime = 0

(***************************************************************************)
(* C6.  A get whose file was removed behind the cache's back returns        *)
(* not-found, takes the id out of the index and leaves every other entry    *)
(* and every file as they were; a delete of that id issued next returns     *)
(* false, and a stats issued next does not count it.                        *)
(***************************************************************************)
C6_SelfHealingGet ==
  [][ /\ (procs[1].pc = "readErr" /\ procs'[1].pc = "idle") =>
           /\ ghost'.last.op = "get" /\ ghost'.last.id = procs[1].id
           /\ ghost'.last.result = NotFound
           /\ ~IndexHas(index', procs[1].id)
           /\ index' = SelectSeq(index, LAMBDA e : e.id # procs[1].id)
           /\ disk' = disk
      /\ (ghost.last.healed /\ procs[1].pc = "body" /\ procs'[1].pc = "idle"
            /\ procs[1].op = "delete" /\ procs[1].id = ghost.last.id) =>
           ghost'.last.result = FALSE
      /\ (ghost.last.healed /\ procs[1].pc = "body" /\ procs'[1].pc = "idle"
            /\ procs[1].op = "stats") =>
           /\ ghost'.last.result.entries = Cardinality(IndexIds(index) \ {ghost.last.id})
           /\ ghost'.last.result.entries = Len(index)
    ]_vars

\* A get has just healed the index while another entry stayed cached.
C6_Witness ==
  /\ InFlight = {}
  /\ ghost.last.healed /\ ghost.last.op = "get" /\ ghost.last.result = NotFound
  /\ ghost.tampered
  /\ Len(index) = 1 /\ index[1].id # ghost.last.id

(***************************************************************************)
(* C3.  Eviction is least-recently-accessed first: when a set has           *)
(* completed, every entry it evicted was last accessed (written by set or   *)
(* read by get) before every entry that survives, and the survivors fit in  *)
(* the budget.  With maxBytes = 2 and one-byte buffers: set(1), set(2),     *)
(* get(1), set(3) must evict 2 and keep 1 and 3.                            *)
(***************************************************************************)
Accessed == {ghost.recency[i] : i \in 1..Len(ghost.recency)}

AccessRank(id) == CHOOSE i \in 1..Len(ghost.recency) : ghost.recency[i] = id

C3_EvictsLeastRecentlyAccessed ==
  (InFlight = {} /\ ghost.last.op = "set") =>
    /\ SumSizes(index) <= maxBytes
    /\ \A e \in ghost.last.evicted \cap Accessed :
         \A s \in IndexIds(index) \cap Accessed : AccessRank(e) < AccessRank(s)

(***************************************************************************)
(* C2.  Cache round trip.  As claimed: a get(id) issued right after a       *)
(* completed set(id, bytes) returns exactly those bytes.                    *)
(***************************************************************************)
GetAfterSetReturns ==
  /\ ghost.last.op = "set"
  /\ procs[1].op = "get" /\ procs[1].id = ghost.last.id
  /\ procs'[1].pc = "idle"

C4_BudgetInvariant ==
  (ghost.setDone /\ InFlight = {}) => SumSizes(index) <= maxBytes

(***************************************************************************)
(* C5.  Concurrent sets do not race: once every set has completed, each     *)
(* indexed id has a file that holds the bytes of the set that wrote its     *)
(* entry, no file is without an index entry, and the total indexed size is  *)
(* within the budget.                                                       *)
(***************************************************************************)
C5_ConcurrentSetsConsistent ==
  (ghost.setDone /\ InFlight = {}) =>
    /\ \A i \in 1..Len(index) :
         LET e == index[i]
         IN  /\ disk[e.id].exists
             /\ e.size = Len(disk[e.id].data)
             /\ ghost.owner[e.id] # <<>> => disk[e.id].data = ghost.owner[e.id]
    /\ \A id \in Ids : disk[id].exists => IndexHas(index, id)
    /\ SumSizes(index) <= maxBytes

(***************************************************************************)
(* C8.  compareIntervals never fails as a whole because of one workout:     *)
(* when the download or the detail request of a requested workout fails,    *)
(* the call still resolves, that workout has no laps and a warning names    *)
(* it.                                                                      *)
(***************************************************************************)
\* The requested positions whose download failed.
DownloadFailed == {j \in DOMAIN fetches : "caught" \in DOMAIN fetches[j].fitBuffer}

NoFileWarnings(id) ==
  {k \in DOMAIN ciWarnings : /\ ciWarnings[k].workoutId = id
                             /\ ciWarnings[k].reason = "no FIT file available"}

WithoutBufferFor(id) ==
  {j \in DOMAIN fetches : /\ ciArgs.workoutIds[j] = id
                          /\ fetches[j].fitBuffer.value = NoBuffer}

C8_OneWorkoutNeverFailsTheComparison ==
  /\ ciPc # "rejected"
  /\ ciPc = "resolved" =>
       /\ Len(ciResult.summaries) = Len(ciArgs.workoutIds)
       /\ \A j \in DownloadFailed :
            /\ workoutLaps[j].laps = <<>>
            /\ ciResult.summaries[j].lapCount = 0
            /\ Cardinality(NoFileWarnings(ciArgs.workoutIds[j]))
                 = Cardinality(WithoutBufferFor(ciArgs.workoutIds[j]))

(***************************************************************************)
(* C9.  buildPowerDurationCurve is not aborted by a workout: a workout      *)
(* without a file, whose download or decode throws, without records or      *)
(* without positive power is skipped with one warning naming its id, the    *)
(* call resolves, and the curve is the curve of the remaining workouts.     *)
(***************************************************************************)
\* What the environment delivered for workout j can be analysed.
Delivered(j) ==
  /\ tasks[j].outcome.kind = "decoded"
  /\ Analysable(tasks[j].outcome.messages)

\* The workouts that can be analysed, in the order they were listed, each
\* with the power of its records.
Remaining ==
  LET kept == SelectSeq([j \in 1..Len(cyclingWorkouts) |-> j], LAMBDA j : Delivered(j))
  IN  [k \in 1..Len(kept) |->
         [workout |-> cyclingWorkouts[kept[k]],
          powerStream |-> PowerStreamOf(tasks[kept[k]].outcome.messages.recordMesgs)]]

WarningsNaming(id) == {k \in DOMAIN warnings : warnings[k].workoutId = id}

ReasonOf(outcome) ==
  IF outcome.kind = "no file" THEN "no activity file"
  ELSE IF outcome.kind = "download threw" THEN "Request failed"
  ELSE IF outcome.kind = "decode threw" THEN "Invalid FIT file"
  ELSE IF ~HasRecords(outcome.messages) THEN "no record data in FIT file"
  ELSE "no power data"

C9_NoWorkoutAbortsTheCurve ==
  /\ pdcPc = "rejected" => tasks = <<>>
  /\ pdcPc = "resolved" =>
       /\ \A j \in DOMAIN tasks : tasks[j].pc = "done"
       /\ \A j \in DOMAIN tasks :
            LET id == cyclingWorkouts[j].workoutId
            IN  IF Delivered(j) THEN WarningsNaming(id) = {}
                ELSE /\ Cardinality(WarningsNaming(id)) = 1
                     /\ \A k \in WarningsNaming(id) :
                          warnings[k].reason = ReasonOf(tasks[j].outcome)
                     /\ \A k \in DOMAIN pdcResult.curve :
                          pdcResult.curve[k].workoutId # id
       /\ pdcResult.warnings = warnings
       /\ pdcResult.curve = Curve(Remaining, DurationsOf(pdcArgs))

\* The first workout's download threw, the last one, of the second batch,
\* has no power, and the others give a curve.
C9_Witness ==
  /\ pdcPc = "resolved"
  /\ Len(cyclingWorkouts) = batchSize + 1
  /\ tasks[1].outcome.kind = "download threw"
  /\ tasks[batchSize + 1].outcome.kind = "decoded"
  /\ HasRecords(tasks[batchSize + 1].outcome.messages)
  /\ ~Delivered(batchSize + 1)
  /\ Len(pdcResult.curve) = 3
  /\ Len(pdcResult.warnings) = 2

(***************************************************************************)
(* C10.  For each duration of the curve, bestPowerWatts is the largest      *)
(* computeBestPower over the analysed workouts with at least that many      *)
(* samples, and the point names the first workout, in the order listed,     *)
(* that reaches it: a later workout with an equal value never replaces it.  *)
(***************************************************************************)
Analysed == {j \in DOMAIN tasks : tasks[j].result # NullResult}

LongEnough(d) == {j \in Analysed : Len(tasks[j].result.powerStream) >= d}

BestOf(j, d) == computeBestPower(tasks[j].result.powerStream, d).bestPower

C10_BestPowerAndFirstOwner ==
  pdcPc = "resolved" =>
    \A k \in DOMAIN pdcResult.curve :
      LET point == pdcResult.curve[k]
          d == point.durationSeconds
      IN  /\ \A j \in LongEnough(d) : BestOf(j, d) <= point.bestPowerWatts
          /\ \E j \in LongEnough(d) :
               /\ BestOf(j, d) = point.bestPowerWatts
               /\ cyclingWorkouts[j].workoutId = point.workoutId
               /\ \A i \in LongEnough(d) : i < j => BestOf(i, d) < point.bestPowerWatts

\* The first workout and the one of the second batch reach the same best
\* value for one second, and the point names the first.
C10_Witness ==
  /\ pdcPc = "resolved"
  /\ Len(cyclingWorkouts) = batchSize + 1
  /\ {1, batchSize + 1} \subseteq Analysed
  /\ Len(pdcResult.curve) > 0
  /\ pdcResult.curve[1].durationSeconds = 1
  /\ BestOf(1, 1) = pdcResult.curve[1].bestPowerWatts
  /\ BestOf(batchSize + 1, 1) = pdcResult.curve[1].bestPowerWatts
  /\ \A j \in Analysed : BestOf(j, 1) <= BestOf(1, 1)
  /\ pdcResult.curve[1].workoutId = cyclingWorkouts[1].workoutId

(***************************************************************************)
(* C11.  Positional lap alignment: there are as many rows as the largest    *)
(* filtered lap count, numbered from 1; every row has one value per         *)
(* requested workout in request order; the value of a workout in row i      *)
(* carries the metrics of its i-th filtered lap, and only the identity of   *)
(* the workout, with no metric field, when it has fewer than i laps.        *)
(***************************************************************************)
\* The metric fields of a value and the lap fields they are read from.
MetricSource ==
  [avgPower |-> "averagePower", maxPower |-> "maxPower",
   avgCadence |-> "averageCadence", duration |-> "duration"]

LapCounts == {Len(workoutLaps[j].laps) : j \in DOMAIN workoutLaps}

C11_LapsAlignedByPosition ==
  ciPc = "resolved" =>
    LET rows == ciResult.laps
        n == Len(ciArgs.workoutIds)
    IN  /\ Len(rows) \in LapCounts
        /\ \A c \in LapCounts : c <= Len(rows)
        /\ \A i \in DOMAIN rows :
             /\ rows[i].lapNumber = i
             /\ Len(rows[i].values) = n
             /\ \A j \in 1..n :
                  LET value == rows[i].values[j]
                      laps == workoutLaps[j].laps
                  IN  /\ value.workoutId = ciArgs.workoutIds[j]
                      /\ \A m \in DOMAIN MetricSource :
                           IF i <= Len(laps) /\ MetricSource[m] \in DOMAIN laps[i]
                           THEN m \in DOMAIN value /\ value[m] = laps[i][MetricSource[m]]
                           ELSE m \notin DOMAIN value

\* Two workouts with three laps and one lap: three rows, and the second
\* workout has no metric in row 2.
C11_Witness ==
  /\ ciPc = "resolved"
  /\ Len(ciArgs.workoutIds) = 2
  /\ Len(workoutLaps[1].laps) = 3
  /\ Len(workoutLaps[2].laps) = 1
  /\ Len(ciResult.laps) = 3
  /\ "avgPower" \in DOMAIN ciResult.laps[2].values[1]
  /\ DOMAIN ciResult.laps[2].values[2] \cap DOMAIN MetricSource = {}

(***************************************************************************)
(* C12.  computeAerobicDecoupling fails with one of three distinct errors,  *)
(* decided in this order: no valid records when every sample has power 0    *)
(* and heart rate 0 or there is no sample; else no power data when no       *)
(* remaining sample has positive power; else no heart rate data when no     *)
(* remaining sample has positive heart rate; and in no other case.          *)
(***************************************************************************)
\* The positions of the samples that are not zero in both streams.
NonZeroSamples == {i \in DOMAIN decPower : decPower[i] # 0 \/ decHr[i] # 0}

Failed == "error" \in DOMAIN decResult

C12_ThreeErrorsInOrder ==
  /\ Cardinality({NoValidRecords, NoPowerData, NoHeartRateData}) = 3
  /\ decPc = "done" =>
       IF NonZeroSamples = {} THEN decResult = [error |-> NoValidRecords]
       ELSE IF \A i \in NonZeroSamples : decPower[i] <= 0
       THEN decResult = [error |-> NoPowerData]
       ELSE IF \A i \in NonZeroSamples : decHr[i] <= 0
       THEN decResult = [error |-> NoHeartRateData]
       ELSE ~Failed

\* A zero sample is dropped and the one left has power and no heart rate.
C12_Witness ==
  /\ decPc = "done"
  /\ decPower = <<0, 200>>
  /\ decHr = <<0, 0>>
  /\ decResult = [error |-> NoHeartRateData]

(***************************************************************************)
(* C13.  decouplingPercent is (secondRatio - firstRatio) / firstRatio x 100 *)
(* rounded to two decimals, each ratio being the mean heart rate of the     *)
(* half over its mean power; the interpretation follows the absolute        *)
(* value: minimal below 5, moderate from 5 to below 10, high from 10.       *)
(* Equal halves give 0, 140 to 154 bpm at 200 W gives 10 and high, 140 to   *)
(* 147 bpm gives 5 and moderate.                                            *)
(***************************************************************************)
\* The samples left after the zero samples are dropped, as positions, and
\* the halves they are split in.
RECURSIVE SumAt(_, _)
SumAt(stream, positions) ==
  IF positions = {} THEN 0
  ELSE LET i == CHOOSE x \in positions : TRUE
       IN  stream[i] + SumAt(stream, positions \ {i})

\* The positions of NonZeroSamples with fewer than k of them before.
FirstOf(k) == {i \in NonZeroSamples : Cardinality({j \in NonZeroSamples : j < i}) < k}

FirstHalf == FirstOf(Cardinality(NonZeroSamples) \div 2)
SecondHalf == NonZeroSamples \ FirstHalf

\* Both ratios are numbers and the first is not zero.
RatiosDefined ==
  /\ SumAt(decPower, FirstHalf) > 0 /\ SumAt(decHr, FirstHalf) > 0
  /\ SumAt(decPower, SecondHalf) > 0

\* 100 x the percent is PercentN / PercentD, in lowest terms: the means of a
\* half have the same divisor, so a ratio is the sum of heart rates over the
\* sum of powers.
RatioDifference ==
  SumAt(decHr, SecondHalf) * SumAt(decPower, FirstHalf)
    - SumAt(decHr, FirstHalf) * SumAt(decPower, SecondHalf)
RatioDivisor == SumAt(decPower, SecondHalf) * SumAt(decHr, FirstHalf)
RatioGcd ==
  Gcd(IF RatioDifference < 0 THEN -RatioDifference ELSE RatioDifference, RatioDivisor)

PercentN == 10000 * (RatioDifference \div RatioGcd)
PercentD == RatioDivisor \div RatioGcd

C13_PercentAndInterpretation ==
  (decPc = "done" /\ ~Failed) =>
    LET percent == decResult.decouplingPercent
        \* the percent in hundredths, when it is a number
        k == (percent.num * 100) \div percent.den
        absK == IF k < 0 THEN -k ELSE k
    IN  /\ RatiosDefined =>
             /\ percent.kind = "finite"
             /\ percent.num * 100 = k * percent.den
             /\ 2 * k * PercentD - 2 * PercentN <= PercentD
             /\ 2 * PercentN - 2 * k * PercentD <= PercentD
             /\ decResult.interpretation =
                  IF absK < 500 THEN "Good aerobic fitness - minimal cardiac drift"
                  ELSE IF absK < 1000 THEN "Moderate decoupling - aerobic endurance developing"
                  ELSE "High decoupling - aerobic base needs work"
        /\ (decPower = <<200, 200>> /\ decHr = <<140, 140>>) =>
             /\ percent = Fin(0, 1)
             /\ decResult.interpretation = "Good aerobic fitness - minimal cardiac drift"
        /\ (decPower = <<200, 200>> /\ decHr = <<140, 154>>) =>
             /\ percent = Fin(10, 1)
             /\ decResult.interpretation = "High decoupling - aerobic base needs work"
        /\ (decPower = <<200, 200>> /\ decHr = <<140, 147>>) =>
             /\ percent = Fin(5, 1)
             /\ decResult.interpretation =
                  "Moderate decoupling - aerobic endurance developing"

\* The step from 140 to 147 bpm with a paused sample in between: exactly 5.
C13_Witness ==
  /\ decPc = "done"
  /\ decPower = <<200, 0, 200>>
  /\ decHr = <<140, 0, 147>>
  /\ ~Failed
  /\ decResult.decouplingPercent = Fin(5, 1)
  /\ decResult.interpretation = "Moderate decoupling - aerobic endurance developing"

(***************************************************************************)
(* C14.  The minPower filter: when minPower is given, a lap is kept if and  *)
(* only if it has an average power and that power is >= minPower; a lap     *)
(* without average power is dropped for every minPower, 0 and negative      *)
(* ones included; the kept laps keep their relative order.                  *)
(***************************************************************************)
Kept(i) == \E k \in DOMAIN flResult : flResult[k] = flLaps[i]

InOriginalOrder ==
  \A k \in DOMAIN flResult :
    /\ \E i \in DOMAIN flLaps : flResult[k] = flLaps[i]
    /\ \A m \in DOMAIN flResult : k < m => flResult[k].lapNumber < flResult[m].lapNumber

C14_MinPowerFilter ==
  (flPc = "done" /\ "minPower" \in DOMAIN flArgs /\ "targetDuration" \notin DOMAIN flArgs) =>
    /\ \A i \in DOMAIN flLaps :
         Kept(i) <=> /\ "averagePower" \in DOMAIN flLaps[i]
                     /\ flLaps[i].averagePower >= flArgs.minPower
    /\ InOriginalOrder

(***************************************************************************)
(* C15.  The targetDuration filter: when targetDuration is given, a lap is  *)
(* kept if and only if it has a duration with |duration - targetDuration|   *)
(* <= tolerance, both bounds included, and, when minPower is given too,     *)
(* also passes the minPower filter; when neither is given every lap is      *)
(* kept.                                                                    *)
(***************************************************************************)
\* The arguments without targetDuration.
WithoutTarget(args) == [k \in DOMAIN args \ {"targetDuration"} |-> args[k]]

\* Lap i passes the filtering that the other arguments ask for.
PassesTheRest(i) ==
  \E k \in DOMAIN filterLaps(flLaps, WithoutTarget(flArgs)) :
    filterLaps(flLaps, WithoutTarget(flArgs))[k] = flLaps[i]

Having(laps, field) == {i \in DOMAIN laps : field \in DOMAIN laps[i]}

RECURSIVE TotalOf(_, _, _)
\* The sum of the field over the first k laps, the laps without it counting 0.
TotalOf(laps, field, k) ==
  IF k = 0 THEN 0
  ELSE TotalOf(laps, field, k - 1) + (IF k \in Having(laps, field) THEN laps[k][field] ELSE 0)

\* a is x / n rounded to the nearest integer, halves upwards (n > 0).
IsRounded(a, x, n) == 2 * a * n <= 2 * x + n /\ 2 * x + n < 2 * (a + 1) * n

SummaryOf(summary, laps) ==
  LET P == Having(laps, "averagePower")
      total == TotalOf(laps, "averagePower", Len(laps))
  IN  /\ summary.lapCount = Len(laps)
      /\ summary.totalDuration = TotalOf(laps, "duration", Len(laps))
      /\ IF P = {}
         THEN /\ summary.avgPower = Nothing /\ summary.minPower = Nothing
              /\ summary.maxPower = Nothing /\ summary.powerRange = Nothing
         ELSE /\ Len(summary.avgPower) = 1 /\ Len(summary.minPower) = 1
              /\ Len(summary.maxPower) = 1 /\ Len(summary.powerRange) = 1
              /\ IsRounded(summary.avgPower[1], total, Cardinality(P))
              /\ \E i \in P : laps[i].averagePower = summary.minPower[1]
              /\ \A i \in P : laps[i].averagePower >= summary.minPower[1]
              /\ \E i \in P : laps[i].averagePower = summary.maxPower[1]
              /\ \A i \in P : laps[i].averagePower <= summary.maxPower[1]
              /\ summary.minPower[1] <= summary.avgPower[1]
              /\ summary.avgPower[1] <= summary.maxPower[1]
              /\ summary.powerRange[1] = summary.maxPower[1] - summary.minPower[1]
      /\ Len(laps) = 0 => summary.lapCount = 0 /\ summary.avgCadence = Nothing

C16_OneSummaryPerWorkout ==
  ciPc = "resolved" =>
    /\ Len(ciResult.summaries) = Len(ciArgs.workoutIds)
    /\ \A j \in DOMAIN ciResult.summaries :
         /\ ciResult.summaries[j].workoutId = ciArgs.workoutIds[j]
         /\ SummaryOf(ciResult.summaries[j], workoutLaps[j].laps)

\* Laps of 1 W, 4 W and no power: the mean 2.5 is rounded to 3; the second
\* workout has no lap left and still has its summary.
C16_Witness ==
  /\ ciPc = "resolved"
  /\ Len(ciResult.summaries) = 2
  /\ ciResult.summaries[1].lapCount = 3
  /\ ciResult.summaries[1].avgPower = <<3>>
  /\ ciResult.summaries[1].minPower = <<1>>
  /\ ciResult.summaries[1].maxPower = <<4>>
  /\ ciResult.summaries[1].totalDuration = 25
  /\ ciResult.summaries[2].lapCount = 0
  /\ ciResult.summaries[2].avgPower = Nothing

(***************************************************************************)
(* C17.  Curve omission: a requested duration d >= 1 is in the curve if and *)
(* only if at least one analysed workout has at least d samples; every      *)
(* point of the curve has a bestPowerWatts >= 0, a requested duration and   *)
(* an analysed workout as its owner.                                        *)
(***************************************************************************)
Requested == {DurationsOf(pdcArgs)[i] : i \in DOMAIN DurationsOf(pdcArgs)}

InCurve(d) == \E k \in DOMAIN pdcResult.curve : pdcResult.curve[k].durationSeconds = d

C17_CurveOmission ==
  pdcPc = "resolved" =>
    /\ \A d \in Requested : d >= 1 => (InCurve(d) <=> LongEnough(d) # {})
    /\ \A k \in DOMAIN pdcResult.curve :
         /\ pdcResult.curve[k].durationSeconds \in Requested
         /\ pdcResult.curve[k].bestPowerWatts >= 0
         /\ \E j \in Analysed :
              cyclingWorkouts[j].workoutId = pdcResult.curve[k].workoutId

\* Workouts were analysed, none has three samples: 1 s is in the curve and
\* the requested 3 s is not.
C17_Witness ==
  /\ pdcPc = "resolved"
  /\ Analysed # {}
  /\ 3 \in Requested /\ LongEnough(3) = {} /\ ~InCurve(3)
  /\ 1 \in Requested /\ InCurve(1)

(***************************************************************************)
(* C18.  Ascending output order: the points of the curve returned by        *)
(* buildPowerDurationCurve and the results returned by getBestPower are in  *)
(* ascending order of durationSeconds whatever the order of the request;    *)
(* the results of getBestPower are the requested durations, each as often   *)
(* as it was requested.                                                     *)
(***************************************************************************)
Ascending(points) ==
  \A i, j \in DOMAIN points :
    i < j => points[i].durationSeconds <= points[j].durationSeconds

\* How often d is among the first k elements of s.
RECURSIVE Occurrences(_, _, _)
Occurrences(s, d, k) ==
  IF k = 0 THEN 0 ELSE Occurrences(s, d, k - 1) + (IF s[k] = d THEN 1 ELSE 0)

C18_AscendingOutput ==
  /\ pdcPc = "resolved" => Ascending(pdcResult.curve)
  /\ gbPc = "resolved" =>
       /\ Ascending(gbResult.results)
       /\ Len(gbResult.results) = Len(gbArgs.durations)
       /\ \A i \in DOMAIN gbArgs.durations :
            Occurrences(gbArgs.durations, gbArgs.durations[i], Len(gbArgs.durations))
              = Cardinality({k \in DOMAIN gbResult.results :
                   gbResult.results[k].durationSeconds = gbArgs.durations[i]})

\* The curve requested as 1, 3, 2 seconds comes out as 1, 2, 3.
C18_Witness ==
  /\ pdcPc = "resolved"
  /\ DurationsOf(pdcArgs) = <<1, 3, 2>>
  /\ Len(pdcResult.curve) = 3
  /\ \A k \in 1..3 : pdcResult.curve[k].durationSeconds = k

\* getBestPower asked for 30, 5, 15 seconds answers for 5, 15, 30.
C18_BestPowerResolved ==
  /\ gbPc = "resolved"
  /\ gbArgs.durations = <<30, 5, 15>>
  /\ [k \in 1..3 |-> gbResult.results[k].durationSeconds] = <<5, 15, 30>>

(***************************************************************************)
(* C19.  Bounded fetch concurrency in buildPowerDurationCurve: at every     *)
(* moment at most 5 download/decode tasks are in flight; no task of a       *)
(* later batch has started before every task of the earlier batches has    *)
(* finished; there is one task for each Bike workout of the range that is   *)
(* not excluded and for no other, and a task starts its download once:      *)
(* from waiting only, having finished by the time the call resolves.        *)
(***************************************************************************)
TasksInFlight == {j \in DOMAIN tasks : tasks[j].pc \in {"download", "decode"}}

TasksStarted == {j \in DOMAIN tasks : tasks[j].pc # "waiting"}

BatchOf(j) == (j - 1) \div batchSize

\* The positions in the range of the workouts that are to be downloaded.
ToDownload ==
  {k \in DOMAIN allWorkouts :
     /\ allWorkouts[k].workoutType = "Bike"
     /\ allWorkouts[k].workoutId \notin ExcludeSetOf(pdcArgs)}

TasksOf(k) ==
  {j \in DOMAIN tasks : cyclingWorkouts[j].workoutId = allWorkouts[k].workoutId}

C19_AtMostFiveInFlight ==
  /\ Cardinality(TasksInFlight) <= 5
  /\ \A j \in TasksStarted : \A i \in DOMAIN tasks : BatchOf(i) < BatchOf(j) => tasks[i].pc = "done"
  /\ pdcPc \in {"fetching", "resolved"} =>
       /\ Len(tasks) = Cardinality(ToDownload)
       /\ \A k \in ToDownload : Cardinality(TasksOf(k)) = 1
  /\ pdcPc = "resolved" => \A j \in DOMAIN tasks : tasks[j].pc = "done"

\* A download starts in a task that was waiting, and a task that has
\* started never waits again.
C19_DownloadStartsOnce ==
  \A j \in DOMAIN tasks :
    /\ (tasks'[j].pc = "download" /\ tasks[j].pc # "download") => tasks[j].pc = "waiting"
    /\ tasks[j].pc # "waiting" => tasks'[j].pc # "waiting"

C19_BoundedFetchConcurrency ==
  [](C19_AtMostFiveInFlight) /\ [][pdcPc = "fetching" => C19_DownloadStartsOnce]_vars

\* Five tasks in flight, one of them decoding, while the sixth workout waits.
C19_Witness ==
  /\ pdcPc = "fetching"
  /\ Len(tasks) = 6
  /\ TasksInFlight = 1..5
  /\ tasks[6].pc = "waiting"
  /\ \E j \in TasksInFlight : tasks[j].pc = "decode"

\* The sixth workout is fetched after the first five have finished.
C19_SecondBatch ==
  /\ pdcPc = "fetching"
  /\ Len(tasks) = 6
  /\ TasksInFlight = {6}

(***************************************************************************)
(* C20.  Cache before fetch in downloadActivityFile with a cache: on a hit  *)
(* no request is made and the cached bytes are returned; on a miss the      *)
(* bytes are requested and cache.set(id, bytes) is called with the          *)
(* decompressed bytes before they are returned, and they are what is        *)
(* returned; without a device file the result is null and cache.set is not  *)
(* called, so that a later call for the same id requests again.             *)
(***************************************************************************)
Ops(log) == [k \in DOMAIN log |-> log[k].op]

Made(op) == \E k \in DOMAIN dfLog : dfLog[k].op = op

Hit == Len(dfLog) > 0 /\ dfLog[1].op = "cache.get" /\ "value" \in DOMAIN dfLog[1]
         /\ dfLog[1].value # Nothing

C20_CacheBeforeFetch ==
  dfHasCache =>
    \* the cache is asked first, whatever follows
    /\ Len(dfLog) > 0 => dfLog[1].op = "cache.get"
    \* nothing is returned while cache.set is awaited
    /\ dfPc = "cache.set" => dfResult = NotReturned
    /\ dfPc = "resolved" =>
         IF Hit
         THEN /\ Ops(dfLog) = <<"cache.get">>
              /\ dfResult = Returned(dfLog[1].value[1])
         ELSE IF dfResult = Returned(NullResult)
         THEN /\ Ops(dfLog) = <<"cache.get", "getAthleteId", "request">>
              /\ dfStore[dfId] = Nothing
         ELSE /\ Ops(dfLog) = <<"cache.get", "getAthleteId", "request", "requestRaw",
                                "cache.set">>
              /\ dfLog[5] = DfSet(dfId, dfResult.returned)
              /\ dfResult.returned = Plain(dfId)
    \* after a null a call for the same id that returns has requested again
    /\ (dfPc = "resolved" /\ dfPrev = [id |-> dfId, result |-> Returned(NullResult)]) =>
         Made("request")

\* The second call for a workout finds its bytes in the cache and returns
\* them without a request.
C20_Witness ==
  /\ dfHasCache
  /\ dfPc = "resolved"
  /\ dfPrev = [id |-> dfId, result |-> Returned(Plain(dfId))]
  /\ Hit
  /\ dfResult = Returned(Plain(dfId))

\* A call returns null, and the next call for the same workout fetches and
\* caches the file.
C20_FetchedAgain ==
  /\ dfHasCache
  /\ dfPc = "resolved"
  /\ dfPrev = [id |-> dfId, result |-> Returned(NullResult)]
  /\ Made("cache.set")

(***************************************************************************)
(* C21.  clear() removes every indexed entry and its file and returns       *)
(* count = the number of entries that were indexed and bytes = the sum of   *)
(* their sizes; the call that follows it finds nothing: a get returns       *)
(* not-found, stats reports 0 entries and 0 bytes, a second clear returns   *)
(* (0, 0).                                                                  *)
(***************************************************************************)
RECURSIVE SizeOfFirst(_, _)
\* The sum of the sizes of the first k entries.
SizeOfFirst(entries, k) ==
  IF k = 0 THEN 0 ELSE SizeOfFirst(entries, k - 1) + entries[k].size

ClearCompleted == ghost.last.op = "clear" /\ \A p \in Slots : procs[p].pc = "idle"

C21_ClearRemovesAll ==
  ClearCompleted =>
    /\ index = <<>>
    /\ ghost.last.result.count = Len(ghost.atClear)
    /\ ghost.last.result.bytes = SizeOfFirst(ghost.atClear, Len(ghost.atClear))
    /\ \A k \in DOMAIN ghost.atClear : disk[ghost.atClear[k].id] = NoFile

\* The call in slot 1 returns in this step.
CallReturns == procs[1].pc # "idle" /\ procs'[1].pc = "idle"

C21_NothingAfterClear ==
  (ghost.last.op = "clear" /\ CallReturns) =>
    CASE procs[1].op = "get" -> ghost'.last.result = NotFound
      [] procs[1].op = "stats" -> /\ ghost'.last.result.entries = 0
                                  /\ ghost'.last.result.totalBytes = 0
      [] procs[1].op = "clear" -> ghost'.last.result = [count |-> 0, bytes |-> 0]
      [] procs[1].op = "delete" -> ghost'.last.result = FALSE
      [] OTHER -> TRUE

C21_Clear == [](C21_ClearRemovesAll) /\ [][C21_NothingAfterClear]_vars

\* Two files of one and two bytes, left by an earlier run, are cleared.
C21_Witness ==
  /\ ClearCompleted
  /\ ghost.last.result = [count |-> 2, bytes |-> 3]
  /\ \A id \in Ids : disk[id] = NoFile

\* A later clear that finds the index empty returns (0, 0).
C21_SecondClear ==
  /\ ClearCompleted
  /\ ghost.calls >= 2
  /\ ghost.atClear = <<>>
  /\ ghost.last.result = [count |-> 0, bytes |-> 0]
  /\ initialized

(***************************************************************************)
(* C22.  delete(id) returns true exactly when id is in the index when the   *)
(* method looks it up; afterwards id is not indexed, its file is gone and   *)
(* a get(id) returns not-found; the other entries and their files are left  *)
(* as they are; delete of an id that is not indexed returns false and       *)
(* changes nothing.                                                         *)
(***************************************************************************)
\* The entries of the ids other than id, in the order of the index.
Others(idx, id) == SelectSeq(idx, LAMBDA e : e.id # id)

\* The call in slot 1 is a delete past init(), and this step is its own.
DeleteActs ==
  /\ procs[1].op = "delete"
  /\ procs[1].pc \in {"body", "delUnlink", "delRet"}
  /\ procs' # procs

C22_DeleteStep ==
  DeleteActs =>
    LET id == procs[1].id
    IN  /\ Others(index', id) = Others(index, id)
        /\ \A other \in Ids \ {id} : disk'[other] = disk[other]
        /\ procs[1].pc = "body" =>
             IF IndexHas(index, id)
             THEN ~CallReturns /\ index' = index /\ disk' = disk
             ELSE /\ CallReturns /\ ghost'.last.result = FALSE
                  /\ index' = index /\ disk' = disk
        /\ procs[1].pc = "delRet" =>
             /\ CallReturns /\ ghost'.last.result = TRUE
             /\ ~IndexHas(index', id)
             /\ disk'[id] = NoFile

C22_GetAfterDelete ==
  (/\ ghost.last.op = "delete" /\ CallReturns
   /\ procs[1].op = "get" /\ procs[1].id = ghost.last.id) =>
    ghost'.last.result = NotFound

DeleteCompleted == ghost.last.op = "delete" /\ \A p \in Slots : procs[p].pc = "idle"

C22_Deleted ==
  DeleteCompleted =>
    /\ ~IndexHas(index, ghost.last.id)
    /\ ghost.last.result = TRUE => disk[ghost.last.id] = NoFile

C22_Delete ==
  /\ [](C22_Deleted)
  /\ [][C22_DeleteStep /\ C22_GetAfterDelete]_vars

\* One of two entries has been deleted; the other and its file are there.
C22_Witness ==
  /\ DeleteCompleted
  /\ ghost.last.result = TRUE
  /\ Len(index) = 1
  /\ disk[index[1].id].exists
  /\ disk[ghost.last.id] = NoFile

\* A delete of an id that is not indexed has returned false.
C22_NotCached ==
  /\ DeleteCompleted
  /\ ghost.last.result = FALSE
  /\ Len(index) > 0

(***************************************************************************)
(* C23.  Restart preserves the cache: when the scan of a new instance has   *)
(* finished, the index holds exactly the entries the instance before held,  *)
(* with the same sizes and with files of those sizes; each last-access time *)
(* is the modification time of the file; the entries are in the same        *)
(* relative order of recency as before, and the entry that an eviction      *)
(* would remove first is the same as before.                                *)
(***************************************************************************)
\* The scan of the new instance ends in this step.
ScanEndsAfterRestart == ghost.restarted /\ ~initialized /\ initialized'

\* cache.ts:144-146: the entry an eviction removes first.
NextVictim(idx) == Head(SortByLastAccess(idx)).id

SameEntries(a, b) ==
  /\ IndexIds(a) = IndexIds(b)
  /\ Len(a) = Len(b)
  /\ \A id \in IndexIds(b) :
       /\ IndexGet(a, id).size = IndexGet(b, id).size
       /\ disk[id].exists /\ Len(disk[id].data) = IndexGet(b, id).size

SeededFromMtime(a) == \A id \in IndexIds(a) : IndexGet(a, id).lastAccess = disk[id].mtime

SameRecencyOrder(a, b) ==
  \A x, y \in IndexIds(b) \cap IndexIds(a) :
    (IndexGet(b, x).lastAccess < IndexGet(b, y).lastAccess)
      <=> (IndexGet(a, x).lastAccess < IndexGet(a, y).lastAccess)

SameVictim(a, b) == (a # <<>> /\ b # <<>>) => NextVictim(a) = NextVictim(b)

C23_RestartStep ==
  ScanEndsAfterRestart =>
    /\ SameEntries(index', ghost.before)
    /\ SeededFromMtime(index')
    /\ SameRecencyOrder(index', ghost.before)
    /\ SameVictim(index', ghost.before)

C23_RestartPreservesTheCache == [][C23_RestartStep]_vars


(***************************************************************************)
(* C24.  getBestPower fails if and only if the workout has no activity     *)
(* file, the decoded file has no records, or no record has positive power; *)
(* in every other case it returns one result per requested duration, null  *)
(* with an error note for a duration longer than the recording and the     *)
(* value and start offset of computeBestPower for every other duration.    *)
(* As stated (C24_FailsOnlyOnItsOwnChecks) the equivalence leaves out the  *)
(* calls getBestPower awaits: a rejection of getWorkout, of                *)
(* downloadActivityFile or of decodeFitBuffer fails the call as well.      *)
(* C24_BestPowerOutcome is the statement with those three added.           *)
(***************************************************************************)
GbFinished == gbPc \in {"rejected", "resolved"}

NoActivityFile == gbOutcome = Outcome("no file")

NoRecordsDecoded ==
  gbOutcome.kind = "decoded" /\ ~HasRecords(gbOutcome.messages)

NoPositivePower ==
  /\ gbOutcome.kind = "decoded"
  /\ HasRecords(gbOutcome.messages)
  /\ ~SomePositive(PowerStreamOf(gbOutcome.messages.recordMesgs))

AwaitedCallRejected ==
  gbOutcome.kind \in {"getWorkout rejected", "download rejected", "decode rejected"}

TimesRequested(d) ==
  Cardinality({i \in DOMAIN gbArgs.durations : gbArgs.durations[i] = d})

TimesAnswered(d) ==
  Cardinality({k \in DOMAIN gbResult.results : gbResult.results[k].durationSeconds = d})

OneResultPerDuration ==
  LET ps == PowerStreamOf(gbOutcome.messages.recordMesgs)
  IN  /\ Len(gbResult.results) = Len(gbArgs.durations)
      /\ \A i \in DOMAIN gbArgs.durations :
           TimesAnswered(gbArgs.durations[i]) = TimesRequested(gbArgs.durations[i])
      /\ \A k \in DOMAIN gbResult.results :
           LET r == gbResult.results[k]
               d == r.durationSeconds
           IN  IF d > Len(ps)
               THEN /\ r.bestPowerWatts = Nothing
                    /\ "error" \in DOMAIN r
               ELSE /\ r.bestPowerWatts = Just(computeBestPower(ps, d).bestPower)
                    /\ r.startOffsetSeconds = computeBestPower(ps, d).startIndex

C24_FailsOnlyOnItsOwnChecks ==
  GbFinished =>
    (gbPc = "rejected" <=> (NoActivityFile \/ NoRecordsDecoded \/ NoPositivePower))

C24_BestPowerOutcome ==
  GbFinished =>
    /\ gbPc = "rejected" <=>
         (AwaitedCallRejected \/ NoActivityFile \/ NoRecordsDecoded \/ NoPositivePower)
    /\ gbPc = "resolved" => OneResultPerDuration

\* A call has returned a value for one duration and null for a longer one.
C24_Witness ==
  /\ gbPc = "resolved"
  /\ \E k \in DOMAIN gbResult.results : gbResult.results[k].bestPowerWatts = Nothing
  /\ \E k \in DOMAIN gbResult.results : gbResult.results[k].bestPowerWatts # Nothing

\* A call has failed because no record holds positive power.
C24_NoPowerFails == gbPc = "rejected" /\ NoPositivePower


(***************************************************************************)
(* C25.  The samples with power 0 and heart rate 0 are removed first and   *)
(* have no influence: the outcomes of a call are those of the call on the  *)
(* streams without these samples, wherever they stood.  The n samples left *)
(* are split, in their order, into the first floor(n/2) and the other      *)
(* n - floor(n/2), and the mean power and mean heart rate of a half are    *)
(* taken over exactly the samples of that half.                            *)
(***************************************************************************)
RECURSIVE WithoutZeroSamples(_, _, _)
\* The samples of stream at the positions where power or heart rate is not 0,
\* from position i on.
WithoutZeroSamples(stream, i, keep) ==
  IF i > Len(stream) THEN <<>>
  ELSE IF i \in keep THEN <<stream[i]>> \o WithoutZeroSamples(stream, i + 1, keep)
  ELSE WithoutZeroSamples(stream, i + 1, keep)

MeanAt(stream, positions) ==
  JsRound(JsDiv(Fin(SumAt(stream, positions), 1), Fin(Cardinality(positions), 1)))

ZerosHaveNoInfluence ==
  computeAerobicDecoupling(decPower, decHr)
    = computeAerobicDecoupling(WithoutZeroSamples(decPower, 1, NonZeroSamples),
                               WithoutZeroSamples(decHr, 1, NonZeroSamples))

SplitInHalves ==
  LET n == Cardinality(NonZeroSamples)
  IN  /\ Cardinality(FirstHalf) = n \div 2
      /\ Cardinality(SecondHalf) = n - (n \div 2)
      /\ \A i \in FirstHalf, j \in SecondHalf : i < j
      /\ decResult.firstHalf.avgPower = MeanAt(decPower, FirstHalf)
      /\ decResult.firstHalf.avgHR = MeanAt(decHr, FirstHalf)
      /\ decResult.secondHalf.avgPower = MeanAt(decPower, SecondHalf)
      /\ decResult.secondHalf.avgHR = MeanAt(decHr, SecondHalf)

C25_ZerosDroppedThenHalved ==
  decPc = "done" =>
    /\ ZerosHaveNoInfluence
    /\ ~Failed => SplitInHalves

\* Three samples are left of four: the first half is the first of them, the
\* second half the two after the zero sample.
C25_Witness ==
  /\ decPc = "done"
  /\ decPower = <<200, 0, 200, 200>>
  /\ decHr = <<140, 0, 147, 154>>
  /\ decResult.firstHalf.avgHR = Fin(140, 1)
  /\ decResult.secondHalf.avgHR = Fin(151, 1)


(***************************************************************************)
(* C28.  When computeAerobicDecoupling passes its three checks and returns *)
(* a result, no division is by zero: each half holds at least one sample,  *)
(* the mean power of each half is not zero, the ratio of heart rate to     *)
(* power of the first half is not zero, and every number returned is       *)
(* finite.                                                                 *)
(***************************************************************************)
IsFinite(x) == x.kind = "finite"

HalvesNotEmpty == FirstHalf # {} /\ SecondHalf # {}

MeanPowersNotZero ==
  SumAt(decPower, FirstHalf) # 0 /\ SumAt(decPower, SecondHalf) # 0

FirstRatioNotZero == SumAt(decHr, FirstHalf) # 0

AllFinite ==
  /\ \A half \in {decResult.firstHalf, decResult.secondHalf} :
       IsFinite(half.avgPower) /\ IsFinite(half.avgHR) /\ IsFinite(half.hrPowerRatio)
  /\ IsFinite(decResult.decouplingPercent)

C28_NoDivisionByZero ==
  (decPc = "done" /\ ~Failed) =>
    HalvesNotEmpty /\ MeanPowersNotZero /\ FirstRatioNotZero /\ AllFinite

\* What holds: the numbers are finite when neither half is without power and
\* the first half is not without heart rate.
C28_FiniteWhenDefined ==
  (decPc = "done" /\ ~Failed /\ RatiosDefined) => AllFinite


(***************************************************************************)
(* C26.  parseLapsFromFit never raises: when the decoder fails, or the     *)
(* decoded file has no lap messages, it returns the empty list; otherwise  *)
(* it returns one lap per lap message, in the decoder's order, numbered    *)
(* 1..n.  A callback of compareIntervals that awaited it always goes on.   *)
(***************************************************************************)
\* The callbacks that have awaited parseLapsFromFit and gone on.
ParsedWorkouts ==
  {j \in DOMAIN workoutLaps :
     workoutLaps[j].pc = "done" /\ workoutLaps[j].decoded # Outcome("none")}

\* Lap i of the result is lap message i: the numbers it holds are those of
\* the message.
LapOfMessage(lap, mesg) ==
  /\ \A pair \in {<<"duration", "totalElapsedTime">>, <<"averagePower", "avgPower">>,
                  <<"maxPower", "maxPower">>, <<"averageCadence", "avgCadence">>} :
       IF pair[2] \in DOMAIN mesg
       THEN pair[1] \in DOMAIN lap /\ lap[pair[1]] = mesg[pair[2]]
       ELSE pair[1] \notin DOMAIN lap

ParsedAsStated(j) ==
  LET decoded == workoutLaps[j].decoded
      parsed == workoutLaps[j].parsed
  IN  IF decoded = Outcome("rejected") THEN parsed = <<>>
      ELSE IF "lapMesgs" \notin DOMAIN decoded.messages THEN parsed = <<>>
      ELSE /\ Len(parsed) = Len(decoded.messages.lapMesgs)
           /\ \A i \in 1..Len(parsed) :
                /\ parsed[i].lapNumber = i
                /\ LapOfMessage(parsed[i], decoded.messages.lapMesgs[i])

C26_ParseLapsNeverRaises ==
  /\ \A j \in ParsedWorkouts : ParsedAsStated(j)
  /\ ciPc = "rejected" => \A j \in DOMAIN workoutLaps : workoutLaps[j].decoded = Outcome("none")

\* One file gave three laps, the decoder failed on the other.
C26_Witness ==
  /\ ParsedWorkouts = {1, 2}
  /\ Len(workoutLaps[1].parsed) = 3
  /\ workoutLaps[2].decoded = Outcome("rejected")


(***************************************************************************)
(* C27.  Accounting of buildPowerDurationCurve: in a result,               *)
(* workoutsAnalysed + workoutsSkipped is the number of workouts of the     *)
(* range that are 'Bike' and not excluded, there is one warning per        *)
(* skipped workout, and every workoutId in the curve is the id of an       *)
(* analysed workout.                                                       *)
(***************************************************************************)
\* The positions of the listed workouts that are 'Bike' and not excluded.
Eligible ==
  {j \in DOMAIN allWorkouts :
     /\ allWorkouts[j].workoutType = "Bike"
     /\ allWorkouts[j].workoutId \notin ExcludeSetOf(pdcArgs)}

\* The tasks whose file was decoded and holds positive power.
AnalysedTasks ==
  {j \in DOMAIN tasks :
     tasks[j].outcome.kind = "decoded" /\ Analysable(tasks[j].outcome.messages)}

C27_Accounting ==
  pdcPc = "resolved" =>
    /\ pdcResult.workoutsAnalysed = Cardinality(AnalysedTasks)
    /\ pdcResult.workoutsAnalysed + pdcResult.workoutsSkipped = Cardinality(Eligible)
    /\ Len(pdcResult.warnings) = pdcResult.workoutsSkipped
    /\ \A k \in DOMAIN pdcResult.curve :
         pdcResult.curve[k].workoutId
           \in {cyclingWorkouts[j].workoutId : j \in AnalysedTasks}

\* A range of six workouts, one of them a run: three analysed, two skipped.
C27_Witness ==
  /\ pdcPc = "resolved"
  /\ Len(allWorkouts) = 6
  /\ Cardinality(Eligible) = 5
  /\ pdcResult.workoutsAnalysed = 3
  /\ pdcResult.workoutsSkipped = 2
  /\ Len(pdcResult.curve) > 0


(***************************************************************************)
(* C29.  The directory scan of init takes effect once per instance, also   *)
(* when the first operations are issued together: no scan writes to the    *)
(* index after initialization has finished, a scan never overwrites the    *)
(* size or lastAccess of an entry written by a set, and it never adds an   *)
(* entry again that a delete or an eviction has removed with its file.     *)
(***************************************************************************)
\* The step of the scan of call p that writes its file to the index
\* (cache.ts:42-46).
ScanWrites(p) ==
  /\ procs[p].pc = "statRet"
  /\ procs[p].stat.exists
  /\ procs'[p].pc # "statRet"

ScanOnlyBeforeInitialized == \A p \in Slots : ScanWrites(p) => ~initialized

ScanKeepsEntriesOfSet ==
  \A p \in Slots :
    LET id == procs[p].cur
    IN  (ScanWrites(p) /\ IndexHas(index, id) /\ ghost.owner[id] # <<>>)
          => IndexGet(index', id) = IndexGet(index, id)

ScanAddsNoRemovedEntry ==
  \A p \in Slots :
    LET id == procs[p].cur
    IN  (ScanWrites(p) /\ ~IndexHas(index, id)) => disk[id].exists

C29_ScanOnce == [][ScanOnlyBeforeInitialized]_vars
C29_ScanKeepsEntriesOfSet == [][ScanKeepsEntriesOfSet]_vars
C29_ScanAddsNoRemovedEntry == [][ScanAddsNoRemovedEntry]_vars

C29_InitScanTakesEffectOnce ==
  [][ScanOnlyBeforeInitialized /\ ScanKeepsEntriesOfSet /\ ScanAddsNoRemovedEntry]_vars


(***************************************************************************)
(* C30.  Date-range chunking in getWorkouts: the chunks hold at most 90    *)
(* days each, are disjoint and in chronological order, and together cover  *)
(* every day from startDate to endDate, both included, exactly once; this  *)
(* also when startDate is endDate and when the last chunk is a single day. *)
(* One request is made per chunk and the results are concatenated in the   *)
(* order of the chunks.                                                    *)
(***************************************************************************)
\* The ranges have been computed.
Chunked == gwPc \in {"fetching", "resolved"}

DaysOf(range) == range.start..range.end

ChunksWithinMaxDays ==
  \A i \in DOMAIN dateRanges :
    /\ dateRanges[i].start <= dateRanges[i].end
    /\ dateRanges[i].end - dateRanges[i].start + 1 <= MAX_DATE_RANGE_DAYS

ChunksInOrder ==
  \A i, j \in DOMAIN dateRanges : i < j => dateRanges[i].end < dateRanges[j].start

ChunksCoverTheRange ==
  /\ \A d \in gwArgs.startDate..gwArgs.endDate :
       Cardinality({i \in DOMAIN dateRanges : d \in DaysOf(dateRanges[i])}) = 1
  /\ \A i \in DOMAIN dateRanges :
       DaysOf(dateRanges[i]) \subseteq gwArgs.startDate..gwArgs.endDate

RECURSIVE ConcatOf(_, _)
\* The workouts of the first n ranges, in the order of the ranges.
ConcatOf(ranges, n) ==
  IF n = 0 THEN <<>>
  ELSE ConcatOf(ranges, n - 1)
         \o fetchWorkoutsForRange(ranges[n].start, ranges[n].end, gwArgs.options)

OneRequestPerChunk ==
  /\ Len(gwRequests) <= Len(dateRanges)
  /\ gwRequests = SubSeq(dateRanges, 1, Len(gwRequests))
  /\ gwAllWorkouts = ConcatOf(dateRanges, Len(gwRequests))
  /\ gwPc = "resolved" => gwRequests = dateRanges

C30_ChunksPartitionTheRange ==
  Chunked =>
    ChunksWithinMaxDays /\ ChunksInOrder /\ ChunksCoverTheRange /\ OneRequestPerChunk

\* What holds: the size and the order of the chunks and the requests made
\* for them, and the cover in a zone without a change of offset when the
\* last day is not left to a chunk of its own.
C30_WithinMaxDays == Chunked => ChunksWithinMaxDays
C30_InOrder == Chunked => ChunksInOrder
C30_Requests == Chunked => OneRequestPerChunk
C30_CoverUnlessLastDayAlone ==
  (/\ Chunked
   /\ gwZone = NoShift
   /\ (gwArgs.endDate - gwArgs.startDate) % MAX_DATE_RANGE_DAYS # 0)
    => ChunksCoverTheRange

====
